---- MODULE Spec2Model ----
(***************************************************************************)
(* Port monitor: update scheduler and broadcaster (server/index.js), the   *)
(* socket-table reader and its cache (PortMonitor), the classifier          *)
(* (data/portDatabase.js), the analyzer with its whitelist and port-scan    *)
(* detector (SecurityAnalyzer) and the retention cleanup (Database).        *)
(*                                                                         *)
(* The module holds several specifications over one set of variables; each  *)
(* leaves the variables of the others at their initial value:               *)
(*   Spec                          ticks: sources, save, broadcast          *)
(*   SpecSession                   sessions: connect, initial-data, close   *)
(*   SpecHeartbeat, FairHeartbeat  the ping/pong liveness check             *)
(*   SpecShutdown, FairShutdown    the termination-signal handler           *)
(*   SpecPM                        the reader's TTL cache and fallback      *)
(*   SpecScan                      the anomaly history and burst threshold  *)
(*   SpecInit                      the attempts of initDatabase and ticks   *)
(*   SpecAlert                     generateSecurityAlert called on its own  *)
(*   SpecAnalyze                   analyzePorts and its whitelist file      *)
(*   SpecParse                     parsePortOutput, twice on one text       *)
(*   SpecCleanup                   the retention cleanup of the database    *)
(***************************************************************************)
EXTENDS Integers, Sequences, FiniteSets, TLC

\* ------------------------------------------------------------------ bounds
MaxClients == 2      \* subscriber sessions that may ever connect
MaxTicks == 2        \* updatePortData runs (the initial one included)
MaxSignals == 2      \* termination signals delivered to the process
MaxCalls == 3        \* getActivePorts calls
MaxClockSteps == 2   \* clock advances between getActivePorts calls
MaxKeys == 11        \* distinct (port, protocol) keys a snapshot may hold
MaxScanCalls == 3    \* detectPortScanning calls
MaxAnalyzeCalls == 2 \* analyzePorts calls
MaxAlertCalls == 2   \* generateSecurityAlert calls
MaxLines == 3        \* lines of a parsed text
MaxRows == 3         \* rows inserted into the database
MaxDbSteps == 2      \* advances of the database clock
MaxWlCalls == 3      \* addToWhitelist and removeFromWhitelist calls
MaxSessions == 2     \* sessions created
MaxAuthSteps == 2    \* advances of the middleware clock
MaxEnrich == 2       \* records and bindings of one GET /api/ports

Null == "null"

Clients == 1..MaxClients
Runs == 1..MaxTicks
Handlers == 1..MaxSignals

VARIABLES
    \* --- server/index.js
    readyState,        \* ws.readyState per session: NEW (not connected yet), OPEN, CLOSING, CLOSED
    isAlive,           \* ws.isAlive per session
    pingOut,           \* a ping of the last heartbeat is still unanswered
    connectedClients,  \* the registry Map, as its keys in insertion order
    inbox,             \* per session: the messages handed to ws.send, in order
    initPc,            \* per session: position of its sendInitialData call
    sendFailed,        \* history: sessions dropped from the registry by a failed send
    hbTerminated,      \* history: sessions terminated by the heartbeat
    missedPong,        \* history: sessions that reached a heartbeat with a ping unanswered
    runs,              \* per updatePortData run: its position and fetched values
    nRuns,             \* number of runs started so far
    intervalsActive,   \* updateInterval and wsHeartbeat are still set
    dbState,           \* initDatabase: initializing, ready (statements prepared), failed
    dbAttempts,        \* number of database.init() calls of initDatabase that have settled
    shutPc,            \* per cleanup() invocation: idle, dbCleanup, rotateLogs, armed
    exited,            \* running, exit0 (server.close callback), exit1 (forced)
    \* --- PortMonitor
    cachedPorts,       \* this.cachedPorts
    lastUpdate,        \* this.lastUpdate (ms)
    pmNow,             \* Date.now() as the reader sees it (ms)
    pmSteps,           \* number of clock advances so far
    calls,             \* per getActivePorts call: position, commands run, result
    \* --- SecurityAnalyzer
    connectionHistory, \* this.connectionHistory: (port, protocol) key -> last-seen time (ms)
    scanNow,           \* Date.now() as the detector sees it (ms)
    scanCalls,         \* number of detectPortScanning calls so far
    scanInput,         \* the port list of the last call
    scanAlert,         \* what the last call returned: a port_scan alert or null
    scanRecent,        \* history: recentPorts of the last call
    lastObserved,      \* history: per key the time of the last call that observed it
    tickObserved,      \* history: who made the last analyzePorts call, and per key the
                       \* time of the last call made by a tick that observed it
    whitelistFile,     \* data/whitelist.json: absent, unreadable, or the JSON document it holds
    anCalls,           \* number of analyzePorts calls so far
    anInput,           \* the port list of the last analyzePorts call
    anResult,          \* how that call settled: rejected, or resolved with its alerts
    \* --- data/portDatabase.js
    gsaCalls,          \* number of generateSecurityAlert calls so far
    gsaNow,            \* Date.now() as generateSecurityAlert sees it
    gsaPrev,           \* the call before the last: its arguments and its return value
    gsaLast,           \* the last call: its arguments and its return value
    \* --- PortMonitor.parsePortOutput called on its own
    parseInput,        \* the text handed to the parser, as its lines
    parsePc,           \* input (text still growing), parsed, reparsed
    parseNow,          \* Date.now() as the parser sees it
    parseFirst,        \* what the first parse of the text returned
    parseSecond,       \* what the second parse of the same text returned
    \* --- Database
    tables,            \* per table: its rows (id, timestamp in seconds, resolved)
    dbNow,             \* datetime('now') as the database sees it (s)
    dbSteps,           \* number of clock advances so far
    nRows,             \* number of rows inserted so far
    cleanupPc,         \* cleanup(): 0 not called, i the i-th query is running, then returned
    rowsBefore,        \* history: the tables when cleanup() was called
    queryOk,           \* history: per query of cleanup(), whether it succeeded
    \* --- SecurityAnalyzer.addToWhitelist / removeFromWhitelist
    wlCalls,           \* number of whitelist operations so far
    wlPrev,            \* history: the file before the last operation
    wlLast,            \* history: the last operation, its arguments and how it settled
    wlOps,             \* per request in flight: its operation and the document it loaded
    \* --- GET /api/topology
    portsReply,        \* the last GET /api/ports: what it read and what it answered
    topoInput,         \* what getActivePorts and getActiveConnections resolved with
    topology,          \* the data of the last response: nodes and edges
    \* --- AuthMiddleware
    sessions,          \* the sessions Map: per token its entry, if it has one
    authNow,           \* new Date() as the middleware sees it (ms)
    authSteps,         \* number of clock advances so far
    issued,            \* history: per token the expiresAt it was created with
    destroyed,         \* history: the tokens destroySession has deleted
    authLast           \* history: the last call or request and its answer; tick flips per call

serverVars == <<readyState, isAlive, pingOut, connectedClients, inbox, initPc,
                sendFailed, hbTerminated, missedPong, runs, nRuns,
                intervalsActive, dbState, dbAttempts, shutPc, exited>>
pmVars == <<cachedPorts, lastUpdate, pmNow, pmSteps, calls>>
scanVars == <<connectionHistory, scanNow, scanCalls, scanInput, scanAlert,
              scanRecent, lastObserved, tickObserved>>
webVars == <<wlCalls, wlPrev, wlLast, wlOps, portsReply, topoInput, topology,
             sessions, authNow, authSteps, issued, destroyed, authLast>>
libVars == <<whitelistFile, anCalls, anInput, anResult,
             gsaCalls, gsaNow, gsaPrev, gsaLast,
             parseInput, parsePc, parseNow, parseFirst, parseSecond,
             tables, dbNow, dbSteps, nRows, cleanupPc, rowsBefore, queryOk, webVars>>
vars == <<serverVars, pmVars, scanVars, libVars>>

\* ------------------------------------------------------------ data values
PortRec(p, proto) == [port |-> p, protocol |-> proto]
Binding(p, name, id) == [port |-> p, name |-> name, id |-> id]

\* what getActivePorts may resolve with during a tick or an initial-data fetch
SamplePorts == <<PortRec(22, "tcp"), PortRec(80, "tcp")>>
PortLists == { <<>>, SamplePorts }
\* what getContainerPorts resolves with when the runtime answers
DockerList == <<Binding(80, "web", "c1"), Binding(80, "proxy", "c2")>>
\* what getCurrentTraffic resolves with when the traffic source answers
TrafficSample == [interfaces |-> <<"eth0">>, ports |-> <<80>>]
TrafficDefault == [interfaces |-> <<>>, ports |-> <<>>]

SeqToSet(s) == { s[i] : i \in 1..Len(s) }
Remove(s, x) == SelectSeq(s, LAMBDA y : y # x)

\* ------------------------------------------------------------------ strings
\* a process name is the sequence of its characters; <<>> stands for both the
\* empty string and undefined, which every test in the code treats alike
toLowerCase(s) ==
    LET upper == <<"A", "B", "C", "D", "E", "F", "G", "H", "I", "J", "K", "L", "M",
                   "N", "O", "P", "Q", "R", "S", "T", "U", "V", "W", "X", "Y", "Z">>
        lower == <<"a", "b", "c", "d", "e", "f", "g", "h", "i", "j", "k", "l", "m",
                   "n", "o", "p", "q", "r", "s", "t", "u", "v", "w", "x", "y", "z">>
    IN [ i \in 1..Len(s) |->
           IF \E k \in 1..Len(upper) : upper[k] = s[i]
           THEN lower[CHOOSE k \in 1..Len(upper) : upper[k] = s[i]]
           ELSE s[i] ]

\* String.prototype.includes
includes(s, sub) ==
    \E i \in 0..(Len(s) - Len(sub)) : SubSeq(s, i + 1, i + Len(sub)) = sub

\* protocol.toUpperCase() for the protocol names
toUpperCase(protocol) ==
    IF protocol = "tcp" THEN "TCP" ELSE IF protocol = "udp" THEN "UDP" ELSE protocol

\* the words of command output, process names and service names used below
Chars ==
    [unknown |-> <<"u", "n", "k", "n", "o", "w", "n">>,
     node |-> <<"n", "o", "d", "e">>,
     NodeJS |-> <<"N", "o", "d", "e", "J", "S">>,
     sshd |-> <<"s", "s", "h", "d">>,
     nginx |-> <<"n", "g", "i", "n", "x">>,
     root |-> <<"r", "o", "o", "t">>,
     nc |-> <<"n", "c">>,
     tcp |-> <<"t", "c", "p">>,
     udp |-> <<"u", "d", "p">>,
     tcp6 |-> <<"t", "c", "p", "6">>,
     Proto |-> <<"P", "r", "o", "t", "o">>,
     Active |-> <<"A", "c", "t", "i", "v", "e">>,
     LISTEN |-> <<"L", "I", "S", "T", "E", "N">>,
     UNCONN |-> <<"U", "N", "C", "O", "N", "N">>,
     cupsd |-> <<"c", "u", "p", "s", "d">>,
     tcpsvd |-> <<"t", "c", "p", "s", "v", "d">>,
     named |-> <<"n", "a", "m", "e", "d">>]

\* ---------------------------------------------------------------- server
\* wss.clients: the sockets the WebSocket server still tracks
wssClients == { c \in Clients : readyState[c] \in {"OPEN", "CLOSING"} }
Registry == SeqToSet(connectedClients)
Running == exited = "running"
\* server.close() has been called by some cleanup() invocation
ServerClosing == \E h \in Handlers : shutPc[h] = "armed"

IdleRun == [pc |-> "idle", ports |-> <<>>, traffic |-> TrafficDefault,
            dockerFailed |-> FALSE, trafficFailed |-> FALSE,
            save |-> "none", bcast |-> <<>>]

\* variant: the runtime failure reaches Promise.all
DockerSourceNoCatch(o) ==
    IF o.ok THEN [rejected |-> FALSE, value |-> o.value]
            ELSE [rejected |-> TRUE, value |-> <<>>]

\* dockerIntegration.getContainerPorts().catch(err => []): a failure settles as []
DockerSource(o) ==
    IF o.ok THEN [rejected |-> FALSE, value |-> o.value]
            ELSE [rejected |-> FALSE, value |-> <<>>]

\* trafficMonitor.getCurrentTraffic().catch(err => ({interfaces: [], ports: []}))
TrafficSource(o) ==
    IF o.ok THEN [rejected |-> FALSE, value |-> o.value]
            ELSE [rejected |-> FALSE, value |-> TrafficDefault]

\* variant: the last matching binding is taken
FindBindingLast(bindings, p) ==
    LET idx == { i \in 1..Len(bindings) : bindings[i].port = p }
    IN IF idx = {} THEN 0 ELSE CHOOSE i \in idx : \A j \in idx : i >= j

\* dockerContainers.find(c => c.port === port.port): index of the first match, 0 if none
FindBinding(bindings, p) ==
    LET idx == { i \in 1..Len(bindings) : bindings[i].port = p }
    IN IF idx = {} THEN 0 ELSE CHOOSE i \in idx : \A j \in idx : i <= j

\* ports.map(port => ({...port, container, containerId}))
Enrich(ports, bindings) ==
    [ i \in 1..Len(ports) |->
        LET b == FindBinding(bindings, ports[i].port)
        IN [ f \in DOMAIN ports[i] \cup {"container", "containerId"} |->
               IF f = "container" THEN (IF b = 0 THEN Null ELSE bindings[b].name)
               ELSE IF f = "containerId" THEN (IF b = 0 THEN Null ELSE bindings[b].id)
               ELSE ports[i][f] ] ]

PortUpdate(r) ==
    [type |-> "port-update",
     data |-> [ports |-> runs[r].ports, traffic |-> runs[r].traffic, timestamp |-> r]]
InitialData(pl) ==
    [type |-> "initial-data", data |-> [ports |-> pl]]

\* initDatabase(retries = 3)
retries == 3

\* variant: the write is attempted whether or not the statements are prepared
SaveStartedUnguarded == "pending"

\* database.savePortSnapshot: skipped (resolves at once) while the statements are not prepared
SaveStarted == IF dbState = "ready" THEN "pending" ELSE "skipped"

\* broadcastUpdate: the sessions whose readyState is OPEN at broadcast time
BroadcastTargets == { c \in Registry : readyState[c] = "OPEN" }
\* variant: the first throwing send ends the loop
BroadcastReceiversUntilThrow(throwers) ==
    LET Pos(c) == CHOOSE i \in 1..Len(connectedClients) : connectedClients[i] = c
    IN { c \in BroadcastTargets \ throwers : \A t \in throwers : Pos(c) < Pos(t) }

\* the sessions that get the message when send throws for those in throwers
BroadcastReceivers(throwers) == BroadcastTargets \ throwers
\* the sessions deleted from the registry by the catch block
BroadcastDropped(throwers) == throwers

InitServer ==
    /\ readyState = [c \in Clients |-> "NEW"]
    /\ isAlive = [c \in Clients |-> FALSE]
    /\ pingOut = [c \in Clients |-> FALSE]
    /\ connectedClients = <<>>
    /\ inbox = [c \in Clients |-> <<>>]
    /\ initPc = [c \in Clients |-> "none"]
    /\ sendFailed = {}
    /\ hbTerminated = {}
    /\ missedPong = {}
    \* the initial updatePortData() call is already awaiting its sources
    /\ runs = [r \in Runs |-> IF r = 1 THEN [IdleRun EXCEPT !.pc = "fetching"] ELSE IdleRun]
    /\ nRuns = 1
    /\ intervalsActive = TRUE
    /\ dbState = "initializing"
    /\ dbAttempts = 0
    /\ shutPc = [h \in Handlers |-> "idle"]
    /\ exited = "running"

\* one pass of the loop of initDatabase: database.init() settles; on success
\* the statements are prepared and the loop returns, on failure the loop goes
\* on (after its 2s pause) unless this was the last of the retries
InitDatabaseDone(ok) ==
    /\ Running
    /\ dbState = "initializing"
    /\ dbAttempts' = dbAttempts + 1
    /\ dbState' = IF ok THEN "ready"
                  ELSE IF dbAttempts + 1 < retries THEN "initializing"
                  ELSE "failed"
    /\ UNCHANGED <<readyState, isAlive, pingOut, connectedClients, inbox, initPc,
                   sendFailed, hbTerminated, missedPong, runs, nRuns,
                   intervalsActive, shutPc, exited>>
    /\ UNCHANGED <<pmVars, scanVars, libVars>>

\* the clients whose upgrade request carries the cookie of a valid session;
\* the others carry none
WithSession == { c \in Clients : c % 2 = 0 }

\* verifyClient(info) of the WebSocket.Server: every upgrade request is accepted
verifyClient(c) == TRUE

\* wss.on('connection'): register the session, then start sendInitialData
Connect(c) ==
    /\ Running
    /\ ~ServerClosing
    /\ verifyClient(c)
    /\ readyState[c] = "NEW"
    /\ \A d \in Clients : d < c => readyState[d] # "NEW"
    /\ readyState' = [readyState EXCEPT ![c] = "OPEN"]
    /\ isAlive' = [isAlive EXCEPT ![c] = TRUE]
    /\ connectedClients' = Append(connectedClients, c)
    /\ initPc' = [initPc EXCEPT ![c] = "awaiting"]
    /\ UNCHANGED <<pingOut, inbox, sendFailed, hbTerminated, missedPong, runs, nRuns,
                   intervalsActive, dbState, dbAttempts, shutPc, exited>>
    /\ UNCHANGED <<pmVars, scanVars, libVars>>

\* sendInitialData: its awaits (two getActivePorts calls, analyzePorts) settled
\* with port list pl; ws.send inside the try block succeeds (ok) or throws
InitialDataSend(c, pl, ok) ==
    /\ Running
    /\ initPc[c] = "awaiting"
    /\ IF readyState[c] = "OPEN" /\ ok
       THEN /\ inbox' = [inbox EXCEPT ![c] = Append(@, InitialData(pl))]
            /\ initPc' = [initPc EXCEPT ![c] = "sent"]
       ELSE /\ inbox' = inbox
            /\ initPc' = [initPc EXCEPT ![c] = "failed"]
    /\ UNCHANGED <<readyState, isAlive, pingOut, connectedClients,
                   sendFailed, hbTerminated, missedPong, runs, nRuns,
                   intervalsActive, dbState, dbAttempts, shutPc, exited>>
    /\ UNCHANGED <<pmVars, scanVars, libVars>>

\* variant: the pong handler does not mark the session alive
PongNoAlive(c) ==
    /\ Running
    /\ readyState[c] = "OPEN"
    /\ pingOut[c]
    /\ pingOut' = [pingOut EXCEPT ![c] = FALSE]
    /\ UNCHANGED <<readyState, isAlive, connectedClients, inbox, initPc,
                   sendFailed, hbTerminated, missedPong, runs, nRuns,
                   intervalsActive, dbState, dbAttempts, shutPc, exited>>
    /\ UNCHANGED <<pmVars, scanVars, libVars>>

\* ws.on('pong', heartbeat)
Pong(c) ==
    /\ Running
    /\ readyState[c] = "OPEN"
    /\ pingOut[c]
    /\ isAlive' = [isAlive EXCEPT ![c] = TRUE]
    /\ pingOut' = [pingOut EXCEPT ![c] = FALSE]
    /\ UNCHANGED <<readyState, connectedClients, inbox, initPc,
                   sendFailed, hbTerminated, missedPong, runs, nRuns,
                   intervalsActive, dbState, dbAttempts, shutPc, exited>>
    /\ UNCHANGED <<pmVars, scanVars, libVars>>

\* the sessions the heartbeat terminates: those whose isAlive is false
HeartbeatVictims == { c \in wssClients : isAlive[c] = FALSE }

\* wsHeartbeat interval callback
Heartbeat ==
    /\ Running
    /\ intervalsActive
    /\ wssClients # {}
    /\ missedPong' = missedPong \cup { c \in wssClients : pingOut[c] }
    /\ hbTerminated' = hbTerminated \cup HeartbeatVictims
    /\ readyState' = [c \in Clients |->
                        IF c \in HeartbeatVictims THEN "CLOSING" ELSE readyState[c]]
    /\ isAlive' = [c \in Clients |->
                        IF c \in wssClients \ HeartbeatVictims THEN FALSE ELSE isAlive[c]]
    /\ pingOut' = [c \in Clients |->
                        IF c \in wssClients \ HeartbeatVictims THEN TRUE ELSE pingOut[c]]
    /\ UNCHANGED <<connectedClients, inbox, initPc, sendFailed, runs, nRuns,
                   intervalsActive, dbState, dbAttempts, shutPc, exited>>
    /\ UNCHANGED <<pmVars, scanVars, libVars>>

\* ws.on('close'): the peer left, or a close/terminate completed
CloseEvent(c) ==
    /\ Running
    /\ readyState[c] \in {"OPEN", "CLOSING"}
    /\ readyState' = [readyState EXCEPT ![c] = "CLOSED"]
    /\ pingOut' = [pingOut EXCEPT ![c] = FALSE]
    /\ connectedClients' = Remove(connectedClients, c)
    /\ UNCHANGED <<isAlive, inbox, initPc, sendFailed, hbTerminated, missedPong,
                   runs, nRuns, intervalsActive, dbState, dbAttempts, shutPc, exited>>
    /\ UNCHANGED <<pmVars, scanVars, libVars>>

\* ws.on('error')
ErrorEvent(c) ==
    /\ Running
    /\ readyState[c] = "OPEN"
    /\ c \in Registry
    /\ connectedClients' = Remove(connectedClients, c)
    /\ UNCHANGED <<readyState, isAlive, pingOut, inbox, initPc, sendFailed,
                   hbTerminated, missedPong, runs, nRuns, intervalsActive,
                   dbState, dbAttempts, shutPc, exited>>
    /\ UNCHANGED <<pmVars, scanVars, libVars>>

\* setInterval(updatePortData, UPDATE_INTERVAL) fires: a run starts, whatever the others do
UpdateStart ==
    /\ Running
    /\ intervalsActive
    /\ nRuns < MaxTicks
    /\ nRuns' = nRuns + 1
    /\ runs' = [runs EXCEPT ![nRuns + 1].pc = "fetching"]
    /\ UNCHANGED <<readyState, isAlive, pingOut, connectedClients, inbox, initPc,
                   sendFailed, hbTerminated, missedPong,
                   intervalsActive, dbState, dbAttempts, shutPc, exited>>
    /\ UNCHANGED <<pmVars, scanVars, libVars>>

\* updatePortData: Promise.all settled with port list pl, runtime outcome d and
\* traffic outcome t; merge, then call analyzePorts. A rejected source takes
\* the run to the catch block of updatePortData instead.
UpdateFetched(r, pl, d, t) ==
    /\ Running
    /\ runs[r].pc = "fetching"
    /\    LET ds == DockerSource(d)
              ts == TrafficSource(t)
          IN runs' = [runs EXCEPT ![r] =
                IF ds.rejected \/ ts.rejected
                THEN [@ EXCEPT !.pc = "aborted",
                               !.dockerFailed = ~d.ok, !.trafficFailed = ~t.ok]
                ELSE [@ EXCEPT !.pc = "analyzing",
                               !.ports = Enrich(pl, ds.value),
                               !.traffic = ts.value,
                               !.dockerFailed = ~d.ok, !.trafficFailed = ~t.ok]]
    /\ UNCHANGED <<readyState, isAlive, pingOut, connectedClients, inbox, initPc,
                   sendFailed, hbTerminated, missedPong, nRuns,
                   intervalsActive, dbState, dbAttempts, shutPc, exited>>
    /\ UNCHANGED <<pmVars, scanVars, libVars>>

\* variant: the save is awaited before the broadcast
PersistAwaited(r, throwers) ==
    /\ runs' = [runs EXCEPT ![r] = [@ EXCEPT !.pc = "saving", !.save = SaveStarted]]
    /\ UNCHANGED <<inbox, connectedClients, sendFailed>>

\* updatePortData after analyzePorts: start the save without awaiting it, then broadcast
PersistAndBroadcast(r, throwers) ==
    /\ runs' = [runs EXCEPT ![r] = [@ EXCEPT !.pc = "done", !.save = SaveStarted,
                                             !.bcast = Append(@, PortUpdate(r))]]
    /\ inbox' = [c \in Clients |->
                    IF c \in BroadcastReceivers(throwers)
                    THEN Append(inbox[c], PortUpdate(r)) ELSE inbox[c]]
    /\ connectedClients' =
          SelectSeq(connectedClients, LAMBDA c : c \notin BroadcastDropped(throwers))
    /\ sendFailed' = sendFailed \cup BroadcastDropped(throwers)

\* updatePortData: analyzePorts resolved (the whitelist document keeps the shape
\* saveWhitelist writes, so the call resolves)
UpdateAnalyzed(r) ==
    /\ Running
    /\ runs[r].pc = "analyzing"
    /\ \E throwers \in SUBSET BroadcastTargets : PersistAndBroadcast(r, throwers)
    /\ UNCHANGED <<readyState, isAlive, pingOut, initPc, hbTerminated, missedPong,
                   nRuns, intervalsActive, dbState, dbAttempts, shutPc, exited>>
    /\ UNCHANGED <<pmVars, scanVars, libVars>>

\* the promise of savePortSnapshot settles; a rejection is only logged
SaveSettled(r, ok) ==
    /\ Running
    /\ runs[r].save = "pending"
    /\ runs' = [runs EXCEPT ![r].save = IF ok THEN "resolved" ELSE "rejected"]
    /\ UNCHANGED <<readyState, isAlive, pingOut, connectedClients, inbox, initPc,
                   sendFailed, hbTerminated, missedPong, nRuns,
                   intervalsActive, dbState, dbAttempts, shutPc, exited>>
    /\ UNCHANGED <<pmVars, scanVars, libVars>>

\* cleanup(): SIGTERM, SIGINT or uncaughtException
Signal(h) ==
    /\ Running
    /\ shutPc[h] = "idle"
    /\ \A g \in Handlers : g < h => shutPc[g] # "idle"
    /\ intervalsActive' = FALSE
    /\ readyState' = [c \in Clients |->
                        IF readyState[c] = "OPEN" THEN "CLOSING" ELSE readyState[c]]
    /\ shutPc' = [shutPc EXCEPT ![h] = "dbCleanup"]
    /\ UNCHANGED <<isAlive, pingOut, connectedClients, inbox, initPc, sendFailed,
                   hbTerminated, missedPong, runs, nRuns, dbState, dbAttempts, exited>>
    /\ UNCHANGED <<pmVars, scanVars, libVars>>

\* cleanup(): `await database.cleanup(30)` settled
DbCleanupDone(h) ==
    /\ Running
    /\ shutPc[h] = "dbCleanup"
    /\ shutPc' = [shutPc EXCEPT ![h] = "rotateLogs"]
    /\ UNCHANGED <<readyState, isAlive, pingOut, connectedClients, inbox, initPc,
                   sendFailed, hbTerminated, missedPong, runs, nRuns,
                   intervalsActive, dbState, dbAttempts, exited>>
    /\ UNCHANGED <<pmVars, scanVars, libVars>>

\* cleanup(): `await logger.rotateLogs()` settled; server.close(cb) and the
\* 10s setTimeout are set up only now
RotateLogsDone(h) ==
    /\ Running
    /\ shutPc[h] = "rotateLogs"
    /\ shutPc' = [shutPc EXCEPT ![h] = "armed"]
    /\ UNCHANGED <<readyState, isAlive, pingOut, connectedClients, inbox, initPc,
                   sendFailed, hbTerminated, missedPong, runs, nRuns,
                   intervalsActive, dbState, dbAttempts, exited>>
    /\ UNCHANGED <<pmVars, scanVars, libVars>>

\* the server.close callback: every connection has ended
ServerClosed(h) ==
    /\ Running
    /\ shutPc[h] = "armed"
    /\ wssClients = {}
    /\ exited' = "exit0"
    /\ UNCHANGED <<readyState, isAlive, pingOut, connectedClients, inbox, initPc,
                   sendFailed, hbTerminated, missedPong, runs, nRuns,
                   intervalsActive, dbState, dbAttempts, shutPc>>
    /\ UNCHANGED <<pmVars, scanVars, libVars>>

\* the 10s timer set at the end of cleanup() fires
ForceExit(h) ==
    /\ Running
    /\ shutPc[h] = "armed"
    /\ exited' = "exit1"
    /\ UNCHANGED <<readyState, isAlive, pingOut, connectedClients, inbox, initPc,
                   sendFailed, hbTerminated, missedPong, runs, nRuns,
                   intervalsActive, dbState, dbAttempts, shutPc>>
    /\ UNCHANGED <<pmVars, scanVars, libVars>>

\* ------------------------------------------------------------ PortMonitor
cacheTimeout == 5000

\* a line of command output is the sequence of its whitespace-separated
\* columns. A column is a word (netid, state, header text), a socket
\* host:port (port NoNum for `*`), the ss process column
\* users:(("name",pid=N,...)) (pid NoNum when the column has no pid=), or
\* the netstat process column PID/name. Numeric counters match no pattern of
\* the parser and are left out.
NoNum == -1
Word(w) == [kind |-> "word", chars |-> w, host |-> "", port |-> NoNum, pid |-> NoNum]
Sock(host, port) == [kind |-> "sock", chars |-> <<>>, host |-> host, port |-> port, pid |-> NoNum]
Users(name, pid) == [kind |-> "users", chars |-> name, host |-> "", port |-> NoNum, pid |-> pid]
PidProgram(pid, name) == [kind |-> "pidprog", chars |-> name, host |-> "", port |-> NoNum, pid |-> pid]

\* `ss -tulpn`: netid, state, local socket, peer socket, process column if any
SsLine(netid, state, host, port, peer, users) ==
    <<Word(netid), Word(state), Sock(host, port), Sock(peer, NoNum)>> \o users

\* `netstat -tulpn`: proto, local socket, foreign socket, state, PID/Program
NetstatLine(proto, host, port, peer, state, program) ==
    <<Word(proto), Sock(host, port), Sock(peer, NoNum)>> \o state \o program

\* the hosts of the form d.d.d.d among the hosts of the lines below
DottedHosts == {"0.0.0.0", "127.0.0.1", "192.168.1.5"}

\* line.includes(w): only words and process names hold letters
LineIncludes(line, w) == \E i \in DOMAIN line : includes(line[i].chars, w)

\* the leftmost of the columns S where a pattern matches, 0 when there is none
FirstMatch(S) == IF S = {} THEN 0 ELSE CHOOSE i \in S : \A j \in S : i <= j

\* the loop over portPatterns: the port of the first pattern that matches, 0
\* (falsy, like an unset port) when none does
ExtractPort(line) ==
    LET \* /(?:0\.0\.0\.0|127\.0\.0\.1|\*|::|\[::\]):(\d+)/
        p1 == FirstMatch({ i \in DOMAIN line :
                  /\ line[i].kind = "sock" /\ line[i].port # NoNum
                  /\ line[i].host \in {"0.0.0.0", "127.0.0.1", "*", "::", "[::]"} })
        \* /\s+(?:\d+\.){3}\d+:(\d+)\s+/
        p2 == FirstMatch({ i \in DOMAIN line :
                  /\ line[i].kind = "sock" /\ line[i].port # NoNum
                  /\ line[i].host \in DottedHosts
                  /\ 1 < i /\ i < Len(line) })
        \* /:(\d+)\s+(?:\d+\.){3}\d+:\*/
        p3 == FirstMatch({ i \in DOMAIN line :
                  /\ line[i].kind = "sock" /\ line[i].port # NoNum
                  /\ i < Len(line)
                  /\ line[i + 1].kind = "sock" /\ line[i + 1].host \in DottedHosts
                  /\ line[i + 1].port = NoNum })
    IN IF p1 # 0 THEN line[p1].port
       ELSE IF p2 # 0 THEN line[p2].port
       ELSE IF p3 # 0 THEN line[p3].port
       ELSE 0

\* the loop over processPatterns: process (<<>> when unset) and pid (0 when unset)
ExtractProcess(line) ==
    LET \* /users:\(\("([^"]+)",pid=(\d+)/ and /"([^"]+)",pid=(\d+)/
        p0 == FirstMatch({ i \in DOMAIN line :
                  line[i].kind = "users" /\ line[i].pid # NoNum })
        \* /(\d+)\/(\S+)/
        p1 == FirstMatch({ i \in DOMAIN line : line[i].kind = "pidprog" })
        \* /users:\(\("([^"]+)"/
        p3 == FirstMatch({ i \in DOMAIN line : line[i].kind = "users" })
    IN IF p0 # 0 THEN [process |-> line[p0].chars, pid |-> line[p0].pid]
       ELSE IF p1 # 0 THEN [process |-> line[p1].chars, pid |-> line[p1].pid]
       ELSE IF p3 # 0 THEN [process |-> line[p3].chars, pid |-> 0]
       ELSE [process |-> <<>>, pid |-> 0]

\* variant: the table is not consulted
identifyPortServiceUnknown(port) == Chars.unknown

\* identifyPortService, for the ports used below
identifyPortService(port) ==
    IF port = 22 THEN <<"s", "s", "h">>
    ELSE IF port = 53 THEN <<"d", "n", "s">>
    ELSE IF port = 80 THEN <<"h", "t", "t", "p">>
    ELSE IF port = 631 THEN <<"c", "u", "p", "s">>
    ELSE Chars.unknown

\* the listening address: wildcard forms become 0.0.0.0, no match gives 0.0.0.0 too
ExtractAddress(line) ==
    LET \* /((?:\d+\.){3}\d+|\*|::|\[::\]):(\d+)/
        m == FirstMatch({ i \in DOMAIN line :
                 /\ line[i].kind = "sock" /\ line[i].port # NoNum
                 /\ line[i].host \in DottedHosts \cup {"*", "::", "[::]"} })
    IN IF m # 0
       THEN IF line[m].host \in {"*", "::", "[::]"} THEN "0.0.0.0" ELSE line[m].host
       ELSE "0.0.0.0"

\* 'tcp' is looked for before 'udp', anywhere in the line; "" when neither occurs
ExtractProtocol(line) ==
    IF LineIncludes(line, Chars.tcp) THEN "tcp"
    ELSE IF LineIncludes(line, Chars.udp) THEN "udp"
    ELSE ""

\* a line the loop leaves with `continue` before the duplicate test
Skipped(line) ==
    \/ LineIncludes(line, Chars.Proto) \/ LineIncludes(line, Chars.Active)
    \/ ExtractProtocol(line) = ""
    \/ ExtractPort(line) = 0

\* the object pushed for a line parsed at time now
PortRecord(line, now) ==
    LET found == ExtractProcess(line)
        process == IF found.process # <<>> THEN found.process
                   ELSE identifyPortService(ExtractPort(line))
    IN [port |-> ExtractPort(line),
        protocol |-> ExtractProtocol(line),
        process |-> IF process # <<>> THEN process ELSE Chars.unknown,
        pid |-> found.pid,
        address |-> ExtractAddress(line),
        timestamp |-> now]

\* variant: a later line of the same (protocol, port) replaces the earlier record
ParseLineLastWins(line, seenPorts, ports, now) ==
    IF Skipped(line) THEN ports
    ELSE Append(SelectSeq(ports, LAMBDA r : <<r.protocol, r.port>> #
                                            <<ExtractProtocol(line), ExtractPort(line)>>),
                PortRecord(line, now))

\* one iteration of the loop of parsePortOutput: headers, lines without
\* protocol or port and lines of a (protocol, port) already seen add nothing
ParseLine(line, seenPorts, ports, now) ==
    IF Skipped(line) \/ <<ExtractProtocol(line), ExtractPort(line)>> \in seenPorts
    THEN ports
    ELSE Append(ports, PortRecord(line, now))

\* the loop of parsePortOutput with its seenPorts set
RECURSIVE ParseLoop(_, _, _, _)
ParseLoop(lines, seenPorts, ports, now) ==
    IF lines = <<>> THEN ports
    ELSE LET line == Head(lines)
         IN ParseLoop(Tail(lines),
                      IF Skipped(line) THEN seenPorts
                      ELSE seenPorts \cup { <<ExtractProtocol(line), ExtractPort(line)>> },
                      ParseLine(line, seenPorts, ports, now),
                      now)

\* variant: the list is returned in the order of the lines
SortByPortOmitted(ports) == ports

\* ports.sort((a, b) => a.port - b.port): stable insertion by port
RECURSIVE SortByPort(_)
SortByPort(ports) ==
    IF ports = <<>> THEN <<>>
    ELSE LET rest == SortByPort(SubSeq(ports, 1, Len(ports) - 1))
             x == ports[Len(ports)]
             before == SelectSeq(rest, LAMBDA y : y.port <= x.port)
             after == SelectSeq(rest, LAMBDA y : y.port > x.port)
         IN before \o <<x>> \o after

\* variant: the set of seen keys outlives the call, as a field of the reader would
parsePortOutputKeepingSeen(output, now) ==
    SortByPort(ParseLoop(output,
                         { <<parseFirst[i].protocol, parseFirst[i].port>> : i \in DOMAIN parseFirst },
                         <<>>, now))

parsePortOutput(output, now) == SortByPort(ParseLoop(output, {}, <<>>, now))

\* lines of `ss -tulpn` and `netstat -tulpn`, a header and a stray line
ParseLines ==
    { SsLine(Chars.tcp, Chars.LISTEN, "0.0.0.0", 22, "0.0.0.0", <<Users(Chars.sshd, 1234)>>),
      SsLine(Chars.tcp, Chars.LISTEN, "127.0.0.1", 22, "0.0.0.0", <<Users(Chars.sshd, 1234)>>),
      SsLine(Chars.udp, Chars.UNCONN, "127.0.0.1", 53, "0.0.0.0", <<Users(Chars.named, 9012)>>),
      NetstatLine(Chars.tcp, "0.0.0.0", 80, "0.0.0.0", <<Word(Chars.LISTEN)>>, <<PidProgram(5678, Chars.nginx)>>),
      NetstatLine(Chars.tcp6, "::", 22, "::", <<Word(Chars.LISTEN)>>, <<PidProgram(1234, Chars.sshd)>>),
      SsLine(Chars.tcp, Chars.LISTEN, "[::]", 80, "[::]", <<>>),
      SsLine(Chars.tcp, Chars.LISTEN, "0.0.0.0", 8443, "0.0.0.0", <<>>),
      SsLine(Chars.tcp, Chars.LISTEN, "*", 70000, "*", <<Users(Chars.node, 77)>>),
      SsLine(Chars.udp, Chars.UNCONN, "0.0.0.0", 0, "0.0.0.0", <<Users(Chars.named, 9012)>>),
      SsLine(Chars.tcp, Chars.LISTEN, "[::1]", 631, "[::]", <<Users(Chars.cupsd, 800)>>),
      SsLine(Chars.udp, Chars.UNCONN, "192.168.1.5", 69, "0.0.0.0", <<Users(Chars.tcpsvd, 42)>>),
      <<Word(Chars.Proto), Word(<<"L", "o", "c", "a", "l">>), Word(<<"S", "t", "a", "t", "e">>)>>,
      <<Word(<<"i", "n", "v", "a", "l", "i", "d">>), Word(<<"l", "i", "n", "e">>)>> }

\* the command prints one more line
OutputLine(line) ==
    /\ parsePc = "input"
    /\ Len(parseInput) < MaxLines
    /\ parseInput' = Append(parseInput, line)
    /\ UNCHANGED <<parsePc, parseNow, parseFirst, parseSecond>>
    /\ UNCHANGED <<serverVars, pmVars, scanVars, webVars>>
    /\ UNCHANGED <<whitelistFile, anCalls, anInput, anResult,
                   gsaCalls, gsaNow, gsaPrev, gsaLast,
                   tables, dbNow, dbSteps, nRows, cleanupPc, rowsBefore, queryOk>>

\* parsePortOutput(output) on the text printed so far
ParseOutput ==
    /\ parsePc = "input"
    /\ parsePc' = "parsed"
    /\ parseFirst' = parsePortOutput(parseInput, parseNow)
    /\ UNCHANGED <<parseInput, parseNow, parseSecond>>
    /\ UNCHANGED <<serverVars, pmVars, scanVars, webVars>>
    /\ UNCHANGED <<whitelistFile, anCalls, anInput, anResult,
                   gsaCalls, gsaNow, gsaPrev, gsaLast,
                   tables, dbNow, dbSteps, nRows, cleanupPc, rowsBefore, queryOk>>

\* parsePortOutput(output) on the same text again, d ms later
ParseAgain(d) ==
    /\ parsePc = "parsed"
    /\ parsePc' = "reparsed"
    /\ parseNow' = parseNow + d
    /\ parseSecond' = parsePortOutput(parseInput, parseNow + d)
    /\ UNCHANGED <<parseInput, parseFirst>>
    /\ UNCHANGED <<serverVars, pmVars, scanVars, webVars>>
    /\ UNCHANGED <<whitelistFile, anCalls, anInput, anResult,
                   gsaCalls, gsaNow, gsaPrev, gsaLast,
                   tables, dbNow, dbSteps, nRows, cleanupPc, rowsBefore, queryOk>>

\* stdout of a successful command
Outputs == { <<>>,
             << <<Word(<<"i", "n", "v", "a", "l", "i", "d">>)>>,
                NetstatLine(Chars.tcp, "0.0.0.0", 80, "0.0.0.0", <<Word(Chars.LISTEN)>>, <<PidProgram(5678, Chars.nginx)>>),
                SsLine(Chars.udp, Chars.UNCONN, "0.0.0.0", 0, "0.0.0.0", <<>>),
                SsLine(Chars.tcp, Chars.LISTEN, "0.0.0.0", 22, "0.0.0.0", <<Users(Chars.sshd, 1234)>>),
                SsLine(Chars.tcp, Chars.LISTEN, "127.0.0.1", 80, "0.0.0.0", <<Users(Chars.nginx, 5678)>>) >> }
ExecOutcomes == { [ok |-> FALSE, stdout |-> <<>>] } \cup { [ok |-> TRUE, stdout |-> o] : o \in Outputs }

\* variant: the TTL comparison includes the boundary
CacheFreshInclusive == pmNow - lastUpdate <= cacheTimeout /\ Len(cachedPorts) > 0

\* the cache test at the head of getActivePorts
CacheFresh == pmNow - lastUpdate < cacheTimeout /\ Len(cachedPorts) > 0

\* variant: the fallback error is rethrown
BothFailedThrows == [rejected |-> TRUE, value |-> <<>>]

\* what the call settles with when ss and netstat both failed
BothFailed == [rejected |-> FALSE, value |-> cachedPorts]

IdleCall == [pc |-> "idle", execs |-> <<>>, outs |-> <<>>, result |-> <<>>,
             rejected |-> FALSE, failed |-> FALSE]

InitPM ==
    /\ cachedPorts = <<>>
    \* lastUpdate starts at 0 and Date.now() is far beyond cacheTimeout
    /\ lastUpdate = 0
    /\ pmNow = 2 * cacheTimeout
    /\ pmSteps = 0
    /\ calls = [k \in 1..MaxCalls |-> IdleCall]

\* time passes
ClockAdvance(d) ==
    /\ pmSteps < MaxClockSteps
    /\ pmSteps' = pmSteps + 1
    /\ pmNow' = pmNow + d
    /\ UNCHANGED <<cachedPorts, lastUpdate, calls>>
    /\ UNCHANGED <<serverVars, scanVars, libVars>>

\* getActivePorts is called: a fresh cache answers, otherwise ss is spawned
CallStart(k) ==
    /\ calls[k].pc = "idle"
    /\ \A j \in 1..MaxCalls : j < k => calls[j].pc # "idle"
    /\ calls' = [calls EXCEPT ![k] =
                    IF CacheFresh
                    THEN [@ EXCEPT !.pc = "done", !.result = cachedPorts]
                    ELSE [@ EXCEPT !.pc = "ss", !.execs = <<"ss">>]]
    /\ UNCHANGED <<cachedPorts, lastUpdate, pmNow, pmSteps>>
    /\ UNCHANGED <<serverVars, scanVars, libVars>>

\* variant: the text parsed is not the one the command printed
AcquiredParsingNothing(k, stdout) ==
    LET ports == parsePortOutput(<<>>, pmNow)
    IN /\ cachedPorts' = ports
       /\ lastUpdate' = pmNow
       /\ calls' = [calls EXCEPT ![k] =
                       [@ EXCEPT !.pc = "done", !.result = ports,
                                 !.outs = Append(@, [ok |-> TRUE, stdout |-> stdout])]]

\* variant: the acquisition does not stamp the cache
AcquiredKeepingStamp(k, stdout) ==
    LET ports == parsePortOutput(stdout, pmNow)
    IN /\ cachedPorts' = ports
       /\ lastUpdate' = lastUpdate
       /\ calls' = [calls EXCEPT ![k] =
                       [@ EXCEPT !.pc = "done", !.result = ports,
                                 !.outs = Append(@, [ok |-> TRUE, stdout |-> stdout])]]

\* the output of the command that succeeded is parsed and cached
Acquired(k, stdout) ==
    LET ports == parsePortOutput(stdout, pmNow)
    IN /\ cachedPorts' = ports
       /\ lastUpdate' = pmNow
       /\ calls' = [calls EXCEPT ![k] =
                       [@ EXCEPT !.pc = "done", !.result = ports,
                                 !.outs = Append(@, [ok |-> TRUE, stdout |-> stdout])]]

\* the ss command settled
SsSettled(k, o) ==
    /\ calls[k].pc = "ss"
    /\ IF o.ok
       THEN Acquired(k, o.stdout)
       ELSE /\ calls' = [calls EXCEPT ![k] =
                    [@ EXCEPT !.pc = "netstat", !.execs = Append(@, "netstat"),
                              !.outs = Append(@, o)]]
            /\ UNCHANGED <<cachedPorts, lastUpdate>>
    /\ UNCHANGED <<pmNow, pmSteps>>
    /\ UNCHANGED <<serverVars, scanVars, libVars>>

\* the netstat command settled
NetstatSettled(k, o) ==
    /\ calls[k].pc = "netstat"
    /\ IF o.ok
       THEN Acquired(k, o.stdout)
       ELSE /\ calls' = [calls EXCEPT ![k] =
                    [@ EXCEPT !.pc = "done", !.failed = TRUE,
                              !.outs = Append(@, o),
                              !.rejected = BothFailed.rejected,
                              !.result = BothFailed.value]]
            /\ UNCHANGED <<cachedPorts, lastUpdate>>
    /\ UNCHANGED <<pmNow, pmSteps>>
    /\ UNCHANGED <<serverVars, scanVars, libVars>>

\* ------------------------------------------------------- SecurityAnalyzer
portScanThreshold == 10
RecentMs == 60000
EvictMs == 300000

\* the i-th key: ports 1, 1, 2, 2, ... alternating tcp and udp
ScanRec(i) == PortRec((i + 1) \div 2, IF i % 2 = 1 THEN "tcp" ELSE "udp")
KeyOf(rec) == <<rec.port, rec.protocol>>

\* a snapshot: the keys lo..hi, with the first record repeated at the end when dup
ScanPorts(lo, hi, dup) ==
    LET base == [ i \in 1..(hi - lo + 1) |-> ScanRec(lo + i - 1) ]
    IN IF dup /\ base # <<>> THEN Append(base, base[1]) ELSE base

\* variant: a key last seen exactly 60s ago counts as new
IsCandidateInclusive(hist, key, now) ==
    \/ key \notin DOMAIN hist
    \/ hist[key] = 0
    \/ now - hist[key] >= RecentMs

\* the test of the forEach body: never seen, or last seen more than 60s ago
IsCandidate(hist, key, now) ==
    \/ key \notin DOMAIN hist
    \/ hist[key] = 0
    \/ now - hist[key] > RecentMs

\* ports.forEach(...): collect the candidates, refresh every observed key
RECURSIVE ScanLoop(_, _, _, _)
ScanLoop(ports, hist, recentPorts, now) ==
    IF ports = <<>> THEN [hist |-> hist, recentPorts |-> recentPorts]
    ELSE LET port == Head(ports)
             key == KeyOf(port)
         IN ScanLoop(Tail(ports),
                     (key :> now) @@ hist,
                     IF IsCandidate(hist, key, now)
                     THEN Append(recentPorts, port.port) ELSE recentPorts,
                     now)

\* variant: the sweep is missing
EvictNothing(hist, now) == hist

\* the sweep over connectionHistory.entries(): drop what is older than 300s
Evict(hist, now) ==
    LET keep == { k \in DOMAIN hist : ~(now - hist[k] > EvictMs) }
    IN [ k \in keep |-> hist[k] ]

\* `return null`, as a record so that it compares with an alert
NoAlert == [type |-> Null, severity |-> Null, ports |-> <<>>]

\* variant: the threshold comparison is strict
PortScanAlertStrict(recentPorts) ==
    IF Len(recentPorts) > portScanThreshold
    THEN [type |-> "port_scan", severity |-> "critical", ports |-> recentPorts]
    ELSE NoAlert

\* the return value of detectPortScanning for the collected candidates
PortScanAlert(recentPorts) ==
    IF Len(recentPorts) >= portScanThreshold
    THEN [type |-> "port_scan", severity |-> "critical", ports |-> recentPorts]
    ELSE NoAlert

InitScan ==
    /\ connectionHistory = <<>>
    /\ scanNow = EvictMs
    /\ scanCalls = 0
    /\ scanInput = <<>>
    /\ scanAlert = NoAlert
    /\ scanRecent = <<>>
    /\ lastObserved = <<>>
    /\ tickObserved = [caller |-> "none", seen |-> <<>>]

\* the record of observations: every key of the list was observed at now
Observed(seen, ports, now) ==
    LET keys == { KeyOf(ports[i]) : i \in DOMAIN ports }
    IN [ k \in keys \cup DOMAIN seen |-> IF k \in keys THEN now ELSE seen[k] ]

\* detectPortScanning(ports), d ms after the previous call
DetectPortScanning(ports, d) ==
    /\ scanCalls < MaxScanCalls
    /\ scanCalls' = scanCalls + 1
    /\ scanNow' = scanNow + d
    /\ scanInput' = ports
    /\ LET loop == ScanLoop(ports, connectionHistory, <<>>, scanNow + d)
       IN /\ connectionHistory' = Evict(loop.hist, scanNow + d)
          /\ scanAlert' = PortScanAlert(loop.recentPorts)
          /\ scanRecent' = loop.recentPorts
    /\ lastObserved' = Observed(lastObserved, ports, scanNow + d)
    /\ UNCHANGED tickObserved
    /\ UNCHANGED <<serverVars, pmVars, libVars>>

\* ------------------------------------------------------- data/portDatabase.js
\* the entries of commonPorts for the ports used below; 22 appears twice in the
\* object literal and the later entry (SFTP) is the one that remains
commonPorts ==
    (22 :> [service |-> "SFTP", risk |-> "low",
            commonProcesses |-> <<Chars.sshd>>]) @@
    (23 :> [service |-> "Telnet", risk |-> "critical",
            commonProcesses |-> << <<"t", "e", "l", "n", "e", "t", "d">>,
                                   <<"x", "i", "n", "e", "t", "d">> >>]) @@
    (80 :> [service |-> "HTTP", risk |-> "medium",
            commonProcesses |-> << Chars.nginx, <<"a", "p", "a", "c", "h", "e", "2">>,
                                   <<"h", "t", "t", "p", "d">>,
                                   <<"l", "i", "g", "h", "t", "t", "p", "d">> >>]) @@
    (3000 :> [service |-> "Node.js Dev", risk |-> "medium",
              commonProcesses |-> << Chars.node, <<"n", "p", "m">>, <<"y", "a", "r", "n">> >>]) @@
    (3306 :> [service |-> "MySQL", risk |-> "high",
              commonProcesses |-> << <<"m", "y", "s", "q", "l", "d">>,
                                     <<"m", "a", "r", "i", "a", "d", "b">> >>]) @@
    (8080 :> [service |-> "HTTP-Alt", risk |-> "medium",
              commonProcesses |-> << <<"t", "o", "m", "c", "a", "t">>,
                                     <<"j", "e", "t", "t", "y">>, Chars.node,
                                     <<"p", "y", "t", "h", "o", "n">> >>])

dangerousPorts == {23, 135, 139, 445, 1433, 1521, 2049, 3389, 5900, 5984, 6000, 8080, 8888, 9200}
developmentPorts == {3000, 3001, 4000, 5000, 8000, 8080, 8888, 9000}
databasePorts == {1433, 1521, 3306, 5432, 6379, 27017, 28017}

\* the risk getPortInfo computes for a port without an entry
UnknownRisk(port) ==
    IF port \in dangerousPorts THEN "critical"
    ELSE IF port >= 49152 THEN "low"
    ELSE IF port < 1024 THEN "medium"
    ELSE "low"

\* variant: an entry only applies to the protocol it was written for
getPortInfoOfProtocol(port, protocol, process) ==
    IF port \in DOMAIN commonPorts /\ protocol = "tcp"
    THEN [service |-> commonPorts[port].service,
          risk |-> commonPorts[port].risk,
          isKnown |-> TRUE,
          isDangerous |-> port \in dangerousPorts,
          isDevelopment |-> port \in developmentPorts,
          isDatabase |-> port \in databasePorts,
          processMatch |->
              \E k \in DOMAIN commonPorts[port].commonProcesses :
                  /\ process # <<>>
                  /\ includes(toLowerCase(process),
                              toLowerCase(commonPorts[port].commonProcesses[k]))]
    ELSE [service |-> "Unknown",
          risk |-> UnknownRisk(port),
          isKnown |-> FALSE,
          isDangerous |-> port \in dangerousPorts,
          isDevelopment |-> port \in developmentPorts,
          isDatabase |-> port \in databasePorts,
          processMatch |-> FALSE]

getPortInfo(port, protocol, process) ==
    IF port \in DOMAIN commonPorts
    THEN [service |-> commonPorts[port].service,
          risk |-> commonPorts[port].risk,
          isKnown |-> TRUE,
          isDangerous |-> port \in dangerousPorts,
          isDevelopment |-> port \in developmentPorts,
          isDatabase |-> port \in databasePorts,
          processMatch |->
              \E k \in DOMAIN commonPorts[port].commonProcesses :
                  /\ process # <<>>
                  /\ includes(toLowerCase(process),
                              toLowerCase(commonPorts[port].commonProcesses[k]))]
    ELSE [service |-> "Unknown",
          risk |-> UnknownRisk(port),
          isKnown |-> FALSE,
          isDangerous |-> port \in dangerousPorts,
          isDevelopment |-> port \in developmentPorts,
          isDatabase |-> port \in databasePorts,
          processMatch |-> FALSE]

\* the if-chain of generateSecurityAlert: severity, type and message
Verdict(portInfo, port, protocol, process, address) ==
    IF portInfo.isDangerous
    THEN [severity |-> "critical", type |-> "dangerous_port",
          message |-> <<"CRITICAL: Dangerous service", portInfo.service, port>>]
    ELSE IF ~portInfo.isKnown
    THEN [severity |-> "medium", type |-> "unknown_port",
          message |-> <<"Unknown service on port", port, toUpperCase(protocol)>>]
    ELSE IF portInfo.risk = "high"
    THEN [severity |-> "high", type |-> "high_risk_service",
          message |-> <<"High-risk service", portInfo.service, port>>]
    ELSE IF portInfo.isDevelopment /\ address # "127.0.0.1" /\ address # "localhost"
    THEN [severity |-> "high", type |-> "dev_service_exposed",
          message |-> <<"Development service exposed", portInfo.service>>]
    ELSE IF ~portInfo.processMatch /\ process # <<>>
    THEN [severity |-> "medium", type |-> "process_mismatch",
          message |-> <<"Unexpected process", process, portInfo.service, port>>]
    ELSE [severity |-> "low", type |-> "info",
          message |-> <<"service active", portInfo.service, port>>]

\* generateSecurityAlert(port, protocol, process, address) called at time now
generateSecurityAlert(port, protocol, process, address, now) ==
    LET portInfo == getPortInfo(port, protocol, process)
        v == Verdict(portInfo, port, protocol, process, address)
    IN [type |-> v.type,
        severity |-> v.severity,
        message |-> v.message,
        port |-> port,
        process |-> IF process # <<>> THEN process ELSE Chars.unknown,
        address |-> address,
        service |-> portInfo.service,
        portInfo |-> portInfo,
        timestamp |-> now]

NoCall == [port |-> 0, protocol |-> Null, process |-> <<>>, address |-> Null,
           at |-> 0, alert |-> generateSecurityAlert(0, Null, <<>>, Null, 0)]

\* one call of generateSecurityAlert, d ms after the one before
GenerateSecurityAlert(port, protocol, process, address, d) ==
    /\ gsaCalls < MaxAlertCalls
    /\ gsaCalls' = gsaCalls + 1
    /\ gsaNow' = gsaNow + d
    /\ gsaPrev' = gsaLast
    /\ gsaLast' = [port |-> port, protocol |-> protocol, process |-> process,
                   address |-> address, at |-> gsaNow + d,
                   alert |-> generateSecurityAlert(port, protocol, process,
                                                   address, gsaNow + d)]
    /\ UNCHANGED <<serverVars, pmVars, scanVars, webVars>>
    /\ UNCHANGED <<whitelistFile, anCalls, anInput, anResult,
                   parseInput, parsePc, parseNow, parseFirst, parseSecond,
                   tables, dbNow, dbSteps, nRows, cleanupPc, rowsBefore, queryOk>>

\* ------------------------------------------------- SecurityAnalyzer.analyzePorts
\* a port record as analyzePorts reads it; a missing protocol or address is "",
\* a missing process is <<>>, a missing pid is 0 (all of them falsy in the code)
AnRec(port, protocol, process, pid, address) ==
    [port |-> port, protocol |-> protocol, process |-> process,
     pid |-> pid, address |-> address]

\* the parsed whitelist document: its ports and processes properties may be absent
WhitelistDoc(hasPorts, ports, hasProcesses, processes) ==
    [hasPorts |-> hasPorts, ports |-> ports,
     hasProcesses |-> hasProcesses, processes |-> processes]

DefaultWhitelist == WhitelistDoc(TRUE, <<>>, TRUE, <<>>)

\* the file: absent, unreadable, not JSON, or JSON holding a document
WhitelistFile(state, doc) == [state |-> state, doc |-> doc]

WhitelistFiles ==
    { WhitelistFile(s, DefaultWhitelist) : s \in {"absent", "unreadable", "garbled"} }
    \cup { WhitelistFile("json", WhitelistDoc(TRUE, ps, TRUE, ns)) :
              ps \in {<<>>, <<22>>}, ns \in {<<>>, <<Chars.sshd>>} }
    \cup { WhitelistFile("json", WhitelistDoc(FALSE, <<>>, FALSE, <<>>)),
           WhitelistFile("json", WhitelistDoc(TRUE, <<22>>, FALSE, <<>>)) }

\* loadWhitelist: whatever JSON.parse returns, the default when reading or parsing throws
loadWhitelist(file) ==
    IF file.state = "json" THEN file.doc ELSE DefaultWhitelist

\* variant: only the port list is consulted
WhitelistTestPortsOnly(port, whitelist) ==
    IF ~whitelist.hasPorts THEN "TypeError"
    ELSE IF port.port \in SeqToSet(whitelist.ports) THEN "skip"
    ELSE "analyze"

\* whitelist.ports.includes(port.port) || whitelist.processes.includes(port.process):
\* reading includes of an absent property throws
WhitelistTest(port, whitelist) ==
    IF ~whitelist.hasPorts THEN "TypeError"
    ELSE IF port.port \in SeqToSet(whitelist.ports) THEN "skip"
    ELSE IF ~whitelist.hasProcesses THEN "TypeError"
    ELSE IF port.process \in SeqToSet(whitelist.processes) THEN "skip"
    ELSE "analyze"

\* this.suspiciousPatterns, each pattern as the substrings it looks for
suspiciousPatterns ==
    << [pattern |-> { Chars.nc, <<"n", "e", "t", "c", "a", "t">> }, severity |-> "high"],
       [pattern |-> { <<"m", "i", "n", "e", "r">>, <<"x", "m", "r", "i", "g">> },
        severity |-> "critical"],
       [pattern |-> { <<"t", "e", "l", "n", "e", "t">> }, severity |-> "medium"],
       [pattern |-> { <<"t", "o", "r", "r", "e", "n", "t">> }, severity |-> "low"] >>

\* pattern.test(process) for a case-insensitive alternation of literals
PatternTest(pattern, process) ==
    \E w \in pattern : includes(toLowerCase(process), w)

\* the first alert of a record: generateSecurityAlert's verdict in the analyzer's format
DetailedAlert(port, now) ==
    LET securityAlert == generateSecurityAlert(
                             port.port,
                             IF port.protocol # "" THEN port.protocol ELSE "tcp",
                             port.process,
                             IF port.address # "" THEN port.address ELSE "unknown",
                             now)
    IN [type |-> securityAlert.type,
        severity |-> securityAlert.severity,
        message |-> securityAlert.message,
        port |-> port.port,
        process |-> IF port.process # <<>> THEN port.process ELSE Chars.unknown,
        address |-> IF port.address # "" THEN port.address ELSE "unknown",
        timestamp |-> securityAlert.timestamp]

SuspiciousAlerts(port) ==
    LET hit == SelectSeq(suspiciousPatterns,
                   LAMBDA sp : port.process # <<>> /\ PatternTest(sp.pattern, port.process))
    IN [ i \in 1..Len(hit) |->
           [type |-> "suspicious_process", severity |-> hit[i].severity,
            port |-> port.port, process |-> port.process] ]

PrivilegeAlerts(port) ==
    IF port.port < 1024 /\ port.process # Chars.root /\ port.pid # 0
    THEN << [type |-> "privilege_violation", severity |-> "high",
             port |-> port.port, process |-> port.process] >>
    ELSE <<>>

\* portAlerts of one loop iteration
PortAlerts(port, now) ==
    <<DetailedAlert(port, now)>> \o SuspiciousAlerts(port) \o PrivilegeAlerts(port)

\* the for-of loop of analyzePorts; a TypeError leaves the loop and the function
RECURSIVE AnalyzeLoop(_, _, _, _)
AnalyzeLoop(ports, whitelist, alerts, now) ==
    IF ports = <<>> THEN [rejected |-> FALSE, alerts |-> alerts]
    ELSE LET test == WhitelistTest(Head(ports), whitelist)
         IN IF test = "TypeError" THEN [rejected |-> TRUE, alerts |-> <<>>]
            ELSE IF test = "skip" THEN AnalyzeLoop(Tail(ports), whitelist, alerts, now)
            ELSE AnalyzeLoop(Tail(ports), whitelist,
                             alerts \o PortAlerts(Head(ports), now), now)

AnalyzeRecords ==
    { AnRec(22, "tcp", Chars.sshd, 1234, "0.0.0.0"),
      AnRec(22, "udp", Chars.nc, 0, "0.0.0.0"),
      AnRec(23, "", <<>>, 0, ""),
      AnRec(80, "udp", Chars.root, 1, ""),
      AnRec(3000, "tcp", Chars.node, 5678, "127.0.0.1"),
      AnRec(9999, "", Chars.nc, 99, "10.0.0.5") }

\* a burst: the keys lo..hi with nothing but port and protocol on each record
BurstPorts(lo, hi) ==
    [ i \in 1..(hi - lo + 1) |->
        AnRec(ScanRec(lo + i - 1).port, ScanRec(lo + i - 1).protocol, <<>>, 0, "") ]

AnalyzeInputs ==
    { <<>> } \cup { <<r>> : r \in AnalyzeRecords }
    \cup { <<r, s>> : r \in { x \in AnalyzeRecords : x.port = 22 }, s \in AnalyzeRecords }
    \cup { BurstPorts(1, portScanThreshold),
           <<AnRec(22, "tcp", Chars.sshd, 1234, "0.0.0.0")>>
               \o BurstPorts(1, portScanThreshold - 1) }

NoAnalysis == [rejected |-> FALSE, alerts |-> <<>>, whitelist |-> DefaultWhitelist]

\* the whitelist file is written, removed or damaged between two analyses
WhitelistFileChanged(file) ==
    /\ anCalls < MaxAnalyzeCalls
    /\ file # whitelistFile
    /\ whitelistFile' = file
    /\ UNCHANGED <<anCalls, anInput, anResult>>
    /\ UNCHANGED <<serverVars, pmVars, scanVars, webVars>>
    /\ UNCHANGED <<gsaCalls, gsaNow, gsaPrev, gsaLast,
                   parseInput, parsePc, parseNow, parseFirst, parseSecond,
                   tables, dbNow, dbSteps, nRows, cleanupPc, rowsBefore, queryOk>>

\* analyzePorts(ports), d ms after the previous use of the analyzer, called by
\* updatePortData ("tick"), sendInitialData ("initial-data") or the handler of
\* GET /api/security/alerts ("alerts"): all three use the one securityAnalyzer
AnalyzePorts(caller, ports, d) ==
    LET now == scanNow + d
        whitelist == loadWhitelist(whitelistFile)
        loop == AnalyzeLoop(ports, whitelist, <<>>, now)
        scan == ScanLoop(ports, connectionHistory, <<>>, now)
        portScanAlert == PortScanAlert(scan.recentPorts)
    IN /\ anCalls < MaxAnalyzeCalls
       /\ anCalls' = anCalls + 1
       /\ anInput' = ports
       /\ scanNow' = now
       /\ IF loop.rejected
          THEN /\ anResult' = [rejected |-> TRUE, alerts |-> <<>>, whitelist |-> whitelist]
               /\ UNCHANGED <<connectionHistory, scanCalls, scanInput, scanAlert,
                              scanRecent, lastObserved>>
               /\ tickObserved' = [tickObserved EXCEPT !.caller = caller]
          ELSE /\ connectionHistory' = Evict(scan.hist, now)
               /\ scanCalls' = scanCalls + 1
               /\ scanInput' = ports
               /\ scanAlert' = portScanAlert
               /\ scanRecent' = scan.recentPorts
               /\ lastObserved' = Observed(lastObserved, ports, now)
               /\ tickObserved' =
                     [caller |-> caller,
                      seen |-> IF caller = "tick"
                               THEN Observed(tickObserved.seen, ports, now)
                               ELSE tickObserved.seen]
               /\ anResult' = [rejected |-> FALSE,
                               alerts |-> IF portScanAlert # NoAlert
                                          THEN Append(loop.alerts, portScanAlert)
                                          ELSE loop.alerts,
                               whitelist |-> whitelist]
       /\ UNCHANGED whitelistFile
       /\ UNCHANGED <<serverVars, pmVars, webVars>>
       /\ UNCHANGED <<gsaCalls, gsaNow, gsaPrev, gsaLast,
                      parseInput, parsePc, parseNow, parseFirst, parseSecond,
                      tables, dbNow, dbSteps, nRows, cleanupPc, rowsBefore, queryOk>>

\* ------------------------------------- addToWhitelist / removeFromWhitelist
\* the file saveWhitelist leaves: JSON.stringify keeps numbers, strings and
\* the absence of a property, so JSON.parse of it gives the document back
saveWhitelist(whitelist) == WhitelistFile("json", whitelist)

\* variant: the port and the process are pushed without looking
addToWhitelistAlwaysPush(whitelist, port, process) ==
    IF ~whitelist.hasPorts \/ (process # <<>> /\ ~whitelist.hasProcesses)
    THEN [threw |-> TRUE, whitelist |-> whitelist]
    ELSE [threw |-> FALSE,
          whitelist |-> [whitelist EXCEPT
              !.ports = Append(@, port),
              !.processes = IF process # <<>> THEN Append(@, process) ELSE @]]

\* the body of addToWhitelist between load and save; process <<>> is the
\* missing or empty argument. includes of an absent property throws
addToWhitelist(whitelist, port, process) ==
    IF ~whitelist.hasPorts \/ (process # <<>> /\ ~whitelist.hasProcesses)
    THEN [threw |-> TRUE, whitelist |-> whitelist]
    ELSE [threw |-> FALSE,
          whitelist |-> [whitelist EXCEPT
              !.ports = IF port \in SeqToSet(@) THEN @ ELSE Append(@, port),
              !.processes = IF process # <<>> /\ process \notin SeqToSet(@)
                            THEN Append(@, process) ELSE @]]

\* variant: removing a listed port clears the process names as well
removeFromWhitelistWithProcesses(whitelist, port) ==
    IF ~whitelist.hasPorts THEN [threw |-> TRUE, whitelist |-> whitelist]
    ELSE [threw |-> FALSE,
          whitelist |-> [whitelist EXCEPT
              !.ports = Remove(@, port),
              !.processes = IF port \in SeqToSet(whitelist.ports) THEN <<>> ELSE @]]

\* the body of removeFromWhitelist: ports.filter(p => p !== port)
removeFromWhitelist(whitelist, port) ==
    IF ~whitelist.hasPorts THEN [threw |-> TRUE, whitelist |-> whitelist]
    ELSE [threw |-> FALSE, whitelist |-> [whitelist EXCEPT !.ports = Remove(@, port)]]

\* one whitelist operation from load to save; the write succeeds or not
WhitelistOp(op, port, process, done, ok) ==
    /\ wlCalls < MaxWlCalls
    /\ wlCalls' = wlCalls + 1
    /\ wlPrev' = whitelistFile
    /\ wlLast' = [op |-> op, port |-> port, process |-> process,
                  rejected |-> done.threw \/ ~ok]
    /\ whitelistFile' = IF done.threw \/ ~ok THEN whitelistFile
                        ELSE saveWhitelist(done.whitelist)
    /\ UNCHANGED <<anCalls, anInput, anResult, wlOps, portsReply, topoInput, topology>>
    /\ UNCHANGED <<sessions, authNow, authSteps, issued, destroyed, authLast>>
    /\ UNCHANGED <<serverVars, pmVars, scanVars>>
    /\ UNCHANGED <<gsaCalls, gsaNow, gsaPrev, gsaLast,
                   parseInput, parsePc, parseNow, parseFirst, parseSecond,
                   tables, dbNow, dbSteps, nRows, cleanupPc, rowsBefore, queryOk>>

AddToWhitelist(port, process, ok) ==
    WhitelistOp("add", port, process,
                addToWhitelist(loadWhitelist(whitelistFile), port, process), ok)

RemoveFromWhitelist(port, ok) ==
    WhitelistOp("remove", port, <<>>,
                removeFromWhitelist(loadWhitelist(whitelistFile), port), ok)

\* ---------------------------------------------------------- GET /api/topology
\* the topology of the handler. A node id `${port}-${protocol}` is the pair
\* <<port, protocol>>; nodeMap.set on an id already present keeps its place
\* and takes the later record; an edge is kept when nodeMap has its from id
\* or its to id
Topology(ports, connections) ==
    LET id(p) == <<p.port, p.protocol>>
        first == { i \in DOMAIN ports : \A j \in 1..(i - 1) : id(ports[j]) # id(ports[i]) }
        last(i) == CHOOSE k \in DOMAIN ports :
                      /\ id(ports[k]) = id(ports[i])
                      /\ \A j \in DOMAIN ports : id(ports[j]) = id(ports[i]) => j <= k
        kept == SelectSeq([ i \in DOMAIN ports |-> i ], LAMBDA i : i \in first)
        has(n) == \E i \in DOMAIN ports : id(ports[i]) = n
        valid == SelectSeq(connections,
                     LAMBDA c : has(<<c.localPort, "tcp">>) \/ has(<<c.remotePort, "tcp">>))
    IN [nodes |-> [ k \in DOMAIN kept |->
                      [id |-> id(ports[kept[k]]),
                       process |-> ports[last(kept[k])].process,
                       type |-> ports[kept[k]].protocol] ],
        edges |-> [ k \in DOMAIN valid |->
                      [from |-> <<valid[k].localPort, "tcp">>,
                       to |-> <<valid[k].remotePort, "tcp">>,
                       label |-> valid[k].state] ]]

\* one GET /api/topology answered from what the two readers resolved with
GetTopology(ports, connections) ==
    /\ topoInput' = [ports |-> ports, connections |-> connections]
    /\ topology' = Topology(ports, connections)
    /\ UNCHANGED <<wlCalls, wlPrev, wlLast, wlOps, portsReply>>
    /\ UNCHANGED <<sessions, authNow, authSteps, issued, destroyed, authLast>>
    /\ UNCHANGED <<serverVars, pmVars, scanVars>>
    /\ UNCHANGED <<whitelistFile, anCalls, anInput, anResult,
                   gsaCalls, gsaNow, gsaPrev, gsaLast,
                   parseInput, parsePc, parseNow, parseFirst, parseSecond,
                   tables, dbNow, dbSteps, nRows, cleanupPc, rowsBefore, queryOk>>

\* a whitelist request whose `await this.loadWhitelist()` has resolved: it
\* holds its own copy of the document as the file was at that moment
WhitelistLoaded(k, op, port, process) ==
    /\ wlOps[k].pc = "idle"
    /\ wlOps' = [wlOps EXCEPT ![k] = [pc |-> "loaded", op |-> op, port |-> port,
                                       process |-> process,
                                       copy |-> loadWhitelist(whitelistFile)]]
    /\ UNCHANGED <<whitelistFile, wlCalls, wlPrev, wlLast, portsReply, topoInput, topology>>
    /\ UNCHANGED <<sessions, authNow, authSteps, issued, destroyed, authLast>>
    /\ UNCHANGED <<serverVars, pmVars, scanVars>>
    /\ UNCHANGED <<anCalls, anInput, anResult,
                   gsaCalls, gsaNow, gsaPrev, gsaLast,
                   parseInput, parsePc, parseNow, parseFirst, parseSecond,
                   tables, dbNow, dbSteps, nRows, cleanupPc, rowsBefore, queryOk>>

\* the rest of the request: its copy is changed and saveWhitelist writes it
WhitelistSaved(k) ==
    /\ wlOps[k].pc = "loaded"
    /\ LET done == IF wlOps[k].op = "add"
                   THEN addToWhitelist(wlOps[k].copy, wlOps[k].port, wlOps[k].process)
                   ELSE removeFromWhitelist(wlOps[k].copy, wlOps[k].port)
       IN /\ wlOps' = [wlOps EXCEPT ![k].pc = IF done.threw THEN "failed" ELSE "saved"]
          /\ whitelistFile' = IF done.threw THEN whitelistFile
                              ELSE saveWhitelist(done.whitelist)
    /\ UNCHANGED <<wlCalls, wlPrev, wlLast, portsReply, topoInput, topology>>
    /\ UNCHANGED <<sessions, authNow, authSteps, issued, destroyed, authLast>>
    /\ UNCHANGED <<serverVars, pmVars, scanVars>>
    /\ UNCHANGED <<anCalls, anInput, anResult,
                   gsaCalls, gsaNow, gsaPrev, gsaLast,
                   parseInput, parsePc, parseNow, parseFirst, parseSecond,
                   tables, dbNow, dbSteps, nRows, cleanupPc, rowsBefore, queryOk>>

\* ------------------------------------------------------------ GET /api/ports
\* one GET /api/ports answered from what getActivePorts resolved with and how
\* getContainerPorts settled
GetPorts(ports, o) ==
    /\ portsReply' = [ports |-> ports, bindings |-> DockerSource(o).value,
                      data |-> Enrich(ports, DockerSource(o).value)]
    /\ UNCHANGED <<wlCalls, wlPrev, wlLast, wlOps, topoInput, topology>>
    /\ UNCHANGED <<sessions, authNow, authSteps, issued, destroyed, authLast>>
    /\ UNCHANGED <<serverVars, pmVars, scanVars>>
    /\ UNCHANGED <<whitelistFile, anCalls, anInput, anResult,
                   gsaCalls, gsaNow, gsaPrev, gsaLast,
                   parseInput, parsePc, parseNow, parseFirst, parseSecond,
                   tables, dbNow, dbSteps, nRows, cleanupPc, rowsBefore, queryOk>>

\* ------------------------------------------------------------ AuthMiddleware
SESSION_TIMEOUT == 86400000

\* the tokens generateSessionToken hands out, in the order it does: 32 random
\* bytes, so no token is handed out twice
SessionTokens == { "t" \o ToString(i) : i \in 1..MaxSessions }

NoSession == [live |-> FALSE, expiresAt |-> 0, lastAccess |-> 0]

\* variant: an expired entry is refused but stays in the store
validateSessionKeepsExpired(token) ==
    IF token = Null \/ token \notin SessionTokens \/ ~sessions[token].live
    THEN [session |-> FALSE, sessions |-> sessions]
    ELSE IF authNow > sessions[token].expiresAt
    THEN [session |-> FALSE, sessions |-> sessions]
    ELSE [session |-> TRUE,
          sessions |-> [sessions EXCEPT ![token].lastAccess = authNow]]

\* validateSession(token): whether it returns a session (not null), and the
\* store it leaves; Null is the missing cookie
validateSession(token) ==
    IF token = Null \/ token \notin SessionTokens \/ ~sessions[token].live
    THEN [session |-> FALSE, sessions |-> sessions]
    ELSE IF authNow > sessions[token].expiresAt
    THEN [session |-> FALSE, sessions |-> [sessions EXCEPT ![token] = NoSession]]
    ELSE [session |-> TRUE,
          sessions |-> [sessions EXCEPT ![token].lastAccess = authNow]]

\* variant: any request that carries a cookie passes
requireAuthAnyCookie(token) ==
    [answer |-> IF token # Null THEN "next" ELSE "401",
     sessions |-> validateSession(token).sessions]

\* requireAuth(req, res, next) for a request with that session_token cookie
requireAuth(token) ==
    [answer |-> IF validateSession(token).session THEN "next" ELSE "401",
     sessions |-> validateSession(token).sessions]

\* what every step of the middleware leaves alone
AuthFrame ==
    /\ UNCHANGED <<wlCalls, wlPrev, wlLast, wlOps, portsReply, topoInput, topology>>
    /\ UNCHANGED <<serverVars, pmVars, scanVars>>
    /\ UNCHANGED <<whitelistFile, anCalls, anInput, anResult,
                   gsaCalls, gsaNow, gsaPrev, gsaLast,
                   parseInput, parsePc, parseNow, parseFirst, parseSecond,
                   tables, dbNow, dbSteps, nRows, cleanupPc, rowsBefore, queryOk>>

\* time passes
AuthClockAdvance(d) ==
    /\ authSteps < MaxAuthSteps
    /\ authSteps' = authSteps + 1
    /\ authNow' = authNow + d
    /\ UNCHANGED <<sessions, issued, destroyed, authLast>>
    /\ AuthFrame

\* createSession, as handleLogin calls it after a successful login
CreateSession ==
    /\ Cardinality({ t \in SessionTokens : issued[t] # NoNum }) < MaxSessions
    /\ LET token == "t" \o ToString(Cardinality({ t \in SessionTokens : issued[t] # NoNum }) + 1)
       IN /\ sessions' = [sessions EXCEPT ![token] =
                             [live |-> TRUE, expiresAt |-> authNow + SESSION_TIMEOUT,
                              lastAccess |-> authNow]]
          /\ issued' = [issued EXCEPT ![token] = authNow + SESSION_TIMEOUT]
          /\ authLast' = [tick |-> 1 - authLast.tick, op |-> "create", path |-> <<>>, token |-> token, answer |-> token]
    /\ UNCHANGED <<authNow, authSteps, destroyed>>
    /\ AuthFrame

\* validateSession(token), as handleSessionCheck calls it
ValidateSession(token) ==
    /\ sessions' = validateSession(token).sessions
    /\ authLast' = [tick |-> 1 - authLast.tick, op |-> "validate", path |-> <<>>, token |-> token,
                    answer |-> IF validateSession(token).session THEN "session" ELSE Null]
    /\ UNCHANGED <<authNow, authSteps, issued, destroyed>>
    /\ AuthFrame

\* destroySession(token), as handleLogout calls it when the cookie is set
DestroySession(token) ==
    LET has == token # Null /\ token \in SessionTokens /\ sessions[token].live
    IN /\ sessions' = IF has THEN [sessions EXCEPT ![token] = NoSession] ELSE sessions
       /\ destroyed' = IF has THEN destroyed \cup {token} ELSE destroyed
       /\ authLast' = [tick |-> 1 - authLast.tick, op |-> "destroy", path |-> <<>>, token |-> token,
                       answer |-> IF has THEN "true" ELSE "false"]
       /\ UNCHANGED <<authNow, authSteps, issued>>
       /\ AuthFrame

\* cleanExpiredSessions, run by the hourly timer
CleanExpiredSessions ==
    /\ \E t \in SessionTokens : sessions[t].live /\ authNow > sessions[t].expiresAt
    /\ sessions' = [ t \in SessionTokens |->
                       IF sessions[t].live /\ authNow > sessions[t].expiresAt
                       THEN NoSession ELSE sessions[t] ]
    /\ UNCHANGED <<authNow, authSteps, issued, destroyed, authLast>>
    /\ AuthFrame

\* a request below /api that reaches the gate: path is req.path as its
\* segments, so req.path.startsWith('/auth/') is a first segment auth with
\* something (an empty segment too) after it
ApiRequest(path, token) ==
    LET skip == Len(path) >= 2 /\ path[1] = "auth"
    IN /\ sessions' = IF skip THEN sessions ELSE requireAuth(token).sessions
       /\ authLast' = [tick |-> 1 - authLast.tick, op |-> "request", path |-> path, token |-> token,
                       answer |-> IF skip THEN "next" ELSE requireAuth(token).answer]
       /\ UNCHANGED <<authNow, authSteps, issued, destroyed>>
       /\ AuthFrame

\* ------------------------------------------------------------ Database.cleanup
\* timestamps are CURRENT_TIMESTAMP values, counted in seconds
daysToKeep == 30
DaySeconds == 86400
TableNames == <<"port_snapshots", "traffic_stats", "security_alerts", "connections">>

\* datetime('now', '-N days')
Horizon(now) == now - daysToKeep * DaySeconds

\* variant: the comparison with the horizon includes the horizon itself
DeletesInclusive(table, row, now) ==
    /\ row.timestamp <= Horizon(now)
    /\ table = "security_alerts" => row.resolved

\* the WHERE clause of the table's DELETE statement
Deletes(table, row, now) ==
    /\ row.timestamp < Horizon(now)
    /\ table = "security_alerts" => row.resolved

\* time passes between two uses of the database
DbClockAdvance(d) ==
    /\ cleanupPc = 0
    /\ dbSteps < MaxDbSteps
    /\ dbSteps' = dbSteps + 1
    /\ dbNow' = dbNow + d
    /\ UNCHANGED <<tables, nRows, cleanupPc, rowsBefore, queryOk>>
    /\ UNCHANGED <<serverVars, pmVars, scanVars, webVars>>
    /\ UNCHANGED <<whitelistFile, anCalls, anInput, anResult,
                   gsaCalls, gsaNow, gsaPrev, gsaLast,
                   parseInput, parsePc, parseNow, parseFirst, parseSecond>>

\* an insert statement runs: the row gets the current time and resolved = 0
InsertRow(table) ==
    /\ cleanupPc = 0
    /\ nRows < MaxRows
    /\ nRows' = nRows + 1
    /\ tables' = [tables EXCEPT ![table] =
                     @ \cup { [id |-> nRows + 1, timestamp |-> dbNow, resolved |-> FALSE] }]
    /\ UNCHANGED <<dbNow, dbSteps, cleanupPc, rowsBefore, queryOk>>
    /\ UNCHANGED <<serverVars, pmVars, scanVars, webVars>>
    /\ UNCHANGED <<whitelistFile, anCalls, anInput, anResult,
                   gsaCalls, gsaNow, gsaPrev, gsaLast,
                   parseInput, parsePc, parseNow, parseFirst, parseSecond>>

\* resolveAlert(id): UPDATE security_alerts SET resolved = 1 WHERE id = ?
ResolveAlert(id) ==
    /\ cleanupPc = 0
    /\ \E row \in tables["security_alerts"] : row.id = id /\ ~row.resolved
    /\ tables' = [tables EXCEPT !["security_alerts"] =
                     { IF row.id = id THEN [row EXCEPT !.resolved = TRUE] ELSE row : row \in @ }]
    /\ UNCHANGED <<dbNow, dbSteps, nRows, cleanupPc, rowsBefore, queryOk>>
    /\ UNCHANGED <<serverVars, pmVars, scanVars, webVars>>
    /\ UNCHANGED <<whitelistFile, anCalls, anInput, anResult,
                   gsaCalls, gsaNow, gsaPrev, gsaLast,
                   parseInput, parsePc, parseNow, parseFirst, parseSecond>>

\* cleanup(30) is called
CleanupStart ==
    /\ cleanupPc = 0
    /\ cleanupPc' = 1
    /\ rowsBefore' = tables
    /\ queryOk' = <<>>
    /\ UNCHANGED <<tables, dbNow, dbSteps, nRows>>
    /\ UNCHANGED <<serverVars, pmVars, scanVars, webVars>>
    /\ UNCHANGED <<whitelistFile, anCalls, anInput, anResult,
                   gsaCalls, gsaNow, gsaPrev, gsaLast,
                   parseInput, parsePc, parseNow, parseFirst, parseSecond>>

\* one DELETE of the loop settled: rows go only when the statement succeeded
CleanupQuery(ok) ==
    /\ cleanupPc \in DOMAIN TableNames
    /\ cleanupPc' = cleanupPc + 1
    /\ queryOk' = Append(queryOk, ok)
    /\ tables' = IF ok
                 THEN [tables EXCEPT ![TableNames[cleanupPc]] =
                          { row \in @ : ~Deletes(TableNames[cleanupPc], row, dbNow) }]
                 ELSE tables
    /\ UNCHANGED <<dbNow, dbSteps, nRows, rowsBefore>>
    /\ UNCHANGED <<serverVars, pmVars, scanVars, webVars>>
    /\ UNCHANGED <<whitelistFile, anCalls, anInput, anResult,
                   gsaCalls, gsaNow, gsaPrev, gsaLast,
                   parseInput, parsePc, parseNow, parseFirst, parseSecond>>

\* VACUUM settled, either way; cleanup returns
CleanupVacuum(ok) ==
    /\ cleanupPc = Len(TableNames) + 1
    /\ cleanupPc' = cleanupPc + 1
    /\ queryOk' = Append(queryOk, ok)
    /\ UNCHANGED <<tables, dbNow, dbSteps, nRows, rowsBefore>>
    /\ UNCHANGED <<serverVars, pmVars, scanVars, webVars>>
    /\ UNCHANGED <<whitelistFile, anCalls, anInput, anResult,
                   gsaCalls, gsaNow, gsaPrev, gsaLast,
                   parseInput, parsePc, parseNow, parseFirst, parseSecond>>

CleanupDone == cleanupPc = Len(TableNames) + 2

\* the analyzer, the classifier, the parser and the database after construction
InitLib ==
    /\ whitelistFile = WhitelistFile("absent", DefaultWhitelist)
    /\ anCalls = 0
    /\ anInput = <<>>
    /\ anResult = NoAnalysis
    /\ gsaCalls = 0
    /\ gsaNow = 0
    /\ gsaPrev = NoCall
    /\ gsaLast = NoCall
    /\ parseInput = <<>>
    /\ parsePc = "input"
    /\ parseNow = 0
    /\ parseFirst = <<>>
    /\ parseSecond = <<>>
    /\ tables = [ t \in { TableNames[i] : i \in DOMAIN TableNames } |-> {} ]
    /\ dbNow = 0
    /\ dbSteps = 0
    /\ nRows = 0
    /\ cleanupPc = 0
    /\ rowsBefore = tables
    /\ queryOk = <<>>
    /\ wlCalls = 0
    /\ wlPrev = whitelistFile
    /\ wlLast = [op |-> "none", port |-> 0, process |-> <<>>, rejected |-> FALSE]
    /\ wlOps = [k \in 1..MaxWlCalls |->
                  [pc |-> "idle", op |-> "none", port |-> 0, process |-> <<>>,
                   copy |-> DefaultWhitelist]]
    /\ portsReply = [ports |-> <<>>, bindings |-> <<>>, data |-> <<>>]
    /\ topoInput = [ports |-> <<>>, connections |-> <<>>]
    /\ topology = Topology(<<>>, <<>>)
    /\ sessions = [ t \in SessionTokens |-> NoSession ]
    /\ authNow = 0
    /\ authSteps = 0
    /\ issued = [ t \in SessionTokens |-> NoNum ]
    /\ destroyed = {}
    /\ authLast = [tick |-> 0, op |-> "none", path |-> <<>>, token |-> Null, answer |-> Null]

Init == InitServer /\ InitPM /\ InitScan /\ InitLib

\* the peer's close frame arrived: the socket is CLOSING until its 'close' event
CloseStarted(c) ==
    /\ Running
    /\ readyState[c] = "OPEN"
    /\ readyState' = [readyState EXCEPT ![c] = "CLOSING"]
    /\ UNCHANGED <<isAlive, pingOut, connectedClients, inbox, initPc, sendFailed,
                   hbTerminated, missedPong, runs, nRuns, intervalsActive,
                   dbState, dbAttempts, shutPc, exited>>
    /\ UNCHANGED <<pmVars, scanVars, libVars>>

\* ticks: every source outcome, the save, and the sessions that receive the broadcast
Spec ==
    Init /\ [][
        \/ InitDatabaseDone(TRUE)
        \/ \E c \in Clients : Connect(c)
        \/ UpdateStart
        \/ \E r \in Runs, pl \in PortLists,
              d \in { [ok |-> TRUE, value |-> DockerList], [ok |-> FALSE, value |-> <<>>] },
              t \in { [ok |-> TRUE, value |-> TrafficSample],
                      [ok |-> FALSE, value |-> TrafficDefault] } :
              UpdateFetched(r, pl, d, t)
        \/ \E r \in Runs : UpdateAnalyzed(r)
        \/ \E r \in Runs, ok \in BOOLEAN : SaveSettled(r, ok)
            ]_vars

\* startup: the attempts of initDatabase, failing or not, next to the ticks
SpecInit ==
    Init /\ [][
        \/ \E ok \in BOOLEAN : InitDatabaseDone(ok)
        \/ \E c \in Clients : Connect(c)
        \/ UpdateStart
        \/ \E r \in Runs : UpdateFetched(r, SamplePorts, [ok |-> TRUE, value |-> DockerList],
                                           [ok |-> TRUE, value |-> TrafficSample])
        \/ \E r \in Runs : UpdateAnalyzed(r)
        \/ \E r \in Runs, ok \in BOOLEAN : SaveSettled(r, ok)
            ]_vars

\* sessions: connect, initial-data, close and error events, and the tick broadcasts
SpecSession ==
    Init /\ [][
        \/ \E c \in Clients : Connect(c)
        \/ \E c \in Clients, ok \in BOOLEAN : InitialDataSend(c, SamplePorts, ok)
        \/ \E c \in Clients : CloseStarted(c)
        \/ \E c \in Clients : CloseEvent(c)
        \/ \E c \in Clients : ErrorEvent(c)
        \/ UpdateStart
        \/ \E r \in Runs : UpdateFetched(r, SamplePorts, [ok |-> TRUE, value |-> DockerList],
                                           [ok |-> TRUE, value |-> TrafficSample])
        \/ \E r \in Runs : UpdateAnalyzed(r)
            ]_vars

\* sessions and the heartbeat
SpecHeartbeat ==
    Init /\ [][
        \/ \E c \in Clients : Connect(c)
        \/ \E c \in Clients : Pong(c)
        \/ Heartbeat
        \/ \E c \in Clients : CloseStarted(c)
        \/ \E c \in Clients : CloseEvent(c)
        \/ \E c \in Clients : ErrorEvent(c)
            ]_vars

\* sessions, the tick timer and the shutdown handler
SpecShutdown ==
    Init /\ [][
        \/ \E c \in Clients : Connect(c)
        \/ \E c \in Clients : CloseEvent(c)
        \/ UpdateStart
        \/ \E h \in Handlers : Signal(h)
        \/ \E h \in Handlers : DbCleanupDone(h)
        \/ \E h \in Handlers : RotateLogsDone(h)
        \/ \E h \in Handlers : ServerClosed(h)
        \/ \E h \in Handlers : ForceExit(h)
            ]_vars

\* the shutdown handler next to ticks in flight, the heartbeat and new sessions
SpecDrain ==
    Init /\ [][
        \/ \E c \in Clients : Connect(c)
        \/ \E c \in Clients : CloseEvent(c)
        \/ Heartbeat
        \/ UpdateStart
        \/ \E r \in Runs : UpdateFetched(r, SamplePorts, [ok |-> TRUE, value |-> DockerList],
                                           [ok |-> TRUE, value |-> TrafficSample])
        \/ \E r \in Runs : UpdateAnalyzed(r)
        \/ \E h \in Handlers : Signal(h)
        \/ \E h \in Handlers : DbCleanupDone(h)
        \/ \E h \in Handlers : RotateLogsDone(h)
        \/ \E h \in Handlers : ServerClosed(h)
        \/ \E h \in Handlers : ForceExit(h)
            ]_vars

\* getActivePorts calls overlapping in time, each command succeeding or failing
SpecPM ==
    Init /\ [][
        \/ \E d \in { 1, cacheTimeout - 1 } : ClockAdvance(d)
        \/ \E k \in 1..MaxCalls : CallStart(k)
        \/ \E k \in 1..MaxCalls, o \in ExecOutcomes : SsSettled(k, o)
        \/ \E k \in 1..MaxCalls, o \in ExecOutcomes : NetstatSettled(k, o)
            ]_vars

\* detectPortScanning called with bursts of keys, 60 s, just over 60 s or over 300 s apart
SpecScan ==
    Init /\ [][
        \E rg \in { <<1, 2>>, <<1, MaxKeys>>, <<1, MaxKeys - 1>>, <<2, MaxKeys>>,
                     <<3, MaxKeys>> },
           dup \in BOOLEAN, d \in { RecentMs, RecentMs + 1, EvictMs + 1 } :
            DetectPortScanning(ScanPorts(rg[1], rg[2], dup), d)
            ]_vars

\* the classifier called on its own; bind addresses: the loopback literal, another
\* address of 127.0.0.0/8, the wildcard
SpecAlert ==
    Init /\ [][
        \E port \in {23, 80, 3000, 3306, 9999}, protocol \in {"tcp", "udp"},
           process \in {<<>>, Chars.node, Chars.NodeJS, Chars.sshd},
           address \in {"127.0.0.1", "127.0.0.53", "0.0.0.0"} :
            GenerateSecurityAlert(port, protocol, process, address, 1)
            ]_vars

\* analyzePorts called while the whitelist file changes between calls
SpecAnalyze ==
    Init /\ [][
        \/ \E file \in WhitelistFiles : WhitelistFileChanged(file)
        \/ \E ports \in AnalyzeInputs : AnalyzePorts("tick", ports, RecentMs + 1)
            ]_vars

\* the one analyzer shared by the ticks (every UPDATE_INTERVAL = 10 s), the
\* initial data of new subscribers and GET /api/security/alerts
SpecCallers ==
    Init /\ [][
        \/ \E ports \in AnalyzeInputs : AnalyzePorts("tick", ports, 10000)
        \/ \E ports \in AnalyzeInputs, caller \in {"initial-data", "alerts"} :
               AnalyzePorts(caller, ports, 1000)
            ]_vars

\* the whitelist operations one after another, starting without a file
SpecWhitelist ==
    Init /\ [][ \/ \E port \in {22, 80, 443}, process \in {<<>>, Chars.sshd, Chars.nginx},
                      ok \in BOOLEAN : AddToWhitelist(port, process, ok)
                \/ \E port \in {22, 80, 443}, ok \in BOOLEAN : RemoveFromWhitelist(port, ok) ]_vars

\* whitelist requests overlapping in time: each loads, then changes and saves
SpecWhitelistRace ==
    Init /\ [][
        \/ \E k \in 1..MaxWlCalls, port \in {22, 80},
              process \in {<<>>, Chars.sshd} : WhitelistLoaded(k, "add", port, process)
        \/ \E k \in 1..MaxWlCalls, port \in {22, 80} :
              WhitelistLoaded(k, "remove", port, <<>>)
        \/ \E k \in 1..MaxWlCalls : WhitelistSaved(k)
            ]_vars

\* GET /api/topology over lists of at most two ports and two connections:
\* listening ports 22 and 80 (22 twice, by two processes) and 53/udp, and
\* connections between them and to ports nothing listens on
SpecTopology ==
    Init /\ [][ LET upTo2(S) == { <<>> } \cup { <<a>> : a \in S }
                                       \cup { <<a, b>> : a, b \in S }
                    listening ==
                        { [port |-> 22, protocol |-> "tcp", process |-> "sshd"],
                          [port |-> 22, protocol |-> "tcp", process |-> "dropbear"],
                          [port |-> 80, protocol |-> "tcp", process |-> "nginx"],
                          [port |-> 53, protocol |-> "udp", process |-> "named"] }
                    established ==
                        { [localPort |-> 22, remotePort |-> 51000, state |-> "ESTAB"],
                          [localPort |-> 80, remotePort |-> 22, state |-> "ESTAB"],
                          [localPort |-> 40000, remotePort |-> 53, state |-> "ESTABLISHED"],
                          [localPort |-> 40000, remotePort |-> 443, state |-> "ESTABLISHED"] }
                IN \E ports \in upTo2(listening), connections \in upTo2(established) :
                       GetTopology(ports, connections) ]_vars

\* GET /api/ports over short lists of records and of bindings, the runtime
\* answering or failing
SpecPorts ==
    Init /\ [][ LET upTo(S) == UNION { [1..n -> S] : n \in 0..MaxEnrich }
                    records ==
                        { [port |-> 22, protocol |-> "tcp", process |-> "sshd", pid |-> 812],
                          [port |-> 80, protocol |-> "tcp", process |-> "nginx", pid |-> 77],
                          [port |-> 80, protocol |-> "udp", process |-> "unknown", pid |-> Null] }
                    bound ==
                        { Binding(80, "web", "c1"), Binding(80, "proxy", "c2"),
                          Binding(22, "gitea", "c3") }
                    settled == { [ok |-> TRUE, value |-> bs] : bs \in upTo(bound) }
                                   \cup { [ok |-> FALSE, value |-> <<>>] }
                IN \E ports \in upTo(records), o \in settled : GetPorts(ports, o) ]_vars

\* sessions created, checked, destroyed and swept while time passes, and
\* requests at the /api gate with no cookie, a forged one or an issued one
SpecAuth ==
    Init /\ [][ \/ \E d \in {1, SESSION_TIMEOUT} : AuthClockAdvance(d)
                \/ CreateSession
                \/ \E token \in SessionTokens \cup {Null, "forged"} : ValidateSession(token)
                \/ \E token \in SessionTokens \cup {Null, "forged"} : DestroySession(token)
                \/ CleanExpiredSessions
                \/ \E token \in SessionTokens \cup {Null, "forged"},
                      path \in { <<"ports">>, <<"auth">>, <<"auth", "x">>, <<"AUTH", "x">> } :
                       ApiRequest(path, token) ]_vars

\* the parser called on its own, twice on the same text
SpecParse ==
    Init /\ [][
        \/ \E line \in ParseLines : OutputLine(line)
        \/ ParseOutput
        \/ \E d \in {0, 1} : ParseAgain(d)
            ]_vars

\* the retention cleanup over the four tables
SpecCleanup ==
    Init /\ [][
        \/ \E d \in {1, daysToKeep * DaySeconds} : DbClockAdvance(d)
        \/ \E i \in DOMAIN TableNames : InsertRow(TableNames[i])
        \/ \E id \in 1..MaxRows : ResolveAlert(id)
        \/ CleanupStart
        \/ \E ok \in BOOLEAN : CleanupQuery(ok)
        \/ \E ok \in BOOLEAN : CleanupVacuum(ok)
            ]_vars

\* fairness: a CLOSING socket gets its 'close' event
FairHeartbeat ==
    /\ SpecHeartbeat
    /\ \A c \in Clients : WF_vars(CloseEvent(c) /\ readyState[c] = "CLOSING")

\* fairness: timers fire, the log rotation and the socket closes complete;
\* nothing makes database.cleanup settle
FairShutdown ==
    /\ SpecShutdown
    /\ \A h \in Handlers : WF_vars(RotateLogsDone(h))
    /\ \A h \in Handlers : WF_vars(ServerClosed(h))
    /\ \A h \in Handlers : WF_vars(ForceExit(h))
    /\ \A c \in Clients : WF_vars(CloseEvent(c) /\ readyState[c] = "CLOSING")

\* ------------------------------------------------------------------ claims

C3_BroadcastDelivery ==
    [][ \A r \in Runs :
          (runs[r].pc = "analyzing" /\ runs'[r].pc = "done") =>
             LET msg == runs'[r].bcast[1]
                 open == { c \in Registry : readyState[c] = "OPEN" }
                 dropped == Registry \ Registry'
             IN /\ dropped \subseteq open
                /\ dropped = sendFailed' \ sendFailed
                /\ \A c \in open \ dropped : inbox'[c] = Append(inbox[c], msg)
                /\ \A c \in Clients \ (open \ dropped) : inbox'[c] = inbox[c]
      ]_vars

C3_Witness ==
    \E r \in Runs, c \in Clients, d \in Clients :
        /\ runs[r].pc = "done"
        /\ c \in sendFailed /\ c \notin Registry /\ readyState[c] = "OPEN"
        /\ \A i \in 1..Len(inbox[c]) : inbox[c][i] # runs[r].bcast[1]
        /\ d # c
        /\ Len(inbox[d]) > 0 /\ inbox[d][Len(inbox[d])] = runs[r].bcast[1]

\* C4: initial-data is the first message a session receives: it never follows
\* a port-update in the session's message order.
C4_InitialDataFirst ==
    \A c \in Clients :
        \A i \in 1..Len(inbox[c]) :
            inbox[c][i].type = "initial-data" => i = 1

\* C5: the heartbeat terminates exactly the sessions that reached a heartbeat
\* with the previous ping unanswered, and a terminated session leaves the
\* registry.
C5_HeartbeatLiveness ==
    /\ [](missedPong = hbTerminated)
    /\ \A c \in Clients : (c \in hbTerminated) ~> (c \notin Registry)

C5_Witness ==
    \E c \in Clients, d \in Clients :
        /\ c \in hbTerminated /\ readyState[c] = "CLOSED" /\ c \notin Registry
        /\ d \notin hbTerminated /\ readyState[d] = "OPEN" /\ isAlive[d] /\ d \in Registry

\* C6: once a termination signal has started the shutdown handler, the
\* process exits.
C6_AlwaysExits ==
    (\E h \in Handlers : shutPc[h] # "idle") ~> (exited # "running")

\* C7: at most one updatePortData run is in progress at any time.
C7_NoOverlap ==
    Cardinality({ r \in Runs : runs[r].pc \in {"fetching", "analyzing"} }) <= 1

\* C8: a getActivePorts call never rejects, and when ss and netstat both
\* failed it resolves with the port list cached at that moment, which it
\* leaves in place.
C8_NeverRejects ==
    [][ \A k \in 1..MaxCalls :
          (calls[k].pc # "done" /\ calls'[k].pc = "done") =>
             /\ ~calls'[k].rejected
             /\ calls'[k].failed =>
                   /\ calls'[k].execs = <<"ss", "netstat">>
                   /\ calls'[k].result = cachedPorts
                   /\ cachedPorts' = cachedPorts
      ]_vars

C8_Witness ==
    \E k \in 1..MaxCalls, j \in 1..MaxCalls :
        /\ calls[k].pc = "done" /\ calls[k].failed /\ ~calls[k].rejected
        /\ Len(calls[k].result) = 2
        /\ calls[j].pc = "done" /\ calls[j].failed /\ calls[j].result = <<>>

\* C9 as stated: a call made less than cacheTimeout after the last successful
\* acquisition returns the cached list without running a command, whatever
\* the list is; a call made once the TTL has elapsed runs the command.
C9_CacheWithinTtl ==
    [][ \A k \in 1..MaxCalls :
          (calls[k].pc = "idle" /\ calls'[k].pc # "idle") =>
             /\ (lastUpdate # 0 /\ pmNow - lastUpdate < 5000) =>
                   /\ calls'[k].pc = "done"
                   /\ calls'[k].execs = <<>>
                   /\ calls'[k].result = cachedPorts
             /\ (pmNow - lastUpdate >= 5000) => calls'[k].execs = <<"ss">>
      ]_vars

\* C9 amended: a call made less than cacheTimeout after the last successful
\* acquisition returns the cached list without running a command when that
\* list is not empty; when the cached list is empty, or once the TTL has
\* elapsed, the call runs the command.
C9_CacheWithinTtlNonEmpty ==
    [][ \A k \in 1..MaxCalls :
          (calls[k].pc = "idle" /\ calls'[k].pc # "idle") =>
             /\ (lastUpdate # 0 /\ pmNow - lastUpdate < 5000 /\ cachedPorts # <<>>) =>
                   /\ calls'[k].pc = "done"
                   /\ calls'[k].execs = <<>>
                   /\ calls'[k].result = cachedPorts
             /\ (pmNow - lastUpdate >= 5000 \/ cachedPorts = <<>>) =>
                   /\ calls'[k].pc = "ss"
                   /\ calls'[k].execs = <<"ss">>
      ]_vars

C9_Witness ==
    \E k \in 1..MaxCalls :
        /\ calls[k].pc = "done" /\ calls[k].execs = <<>>
        /\ Len(calls[k].result) = 2
        /\ pmNow - lastUpdate = 4999

\* C10: a detectPortScanning call returns one critical port_scan alert listing
\* the candidate ports when at least 10 of the observed (port, protocol) keys
\* were absent from the history or last seen more than 60s before the call,
\* and returns no alert when 9 or fewer were.
C10_ScanThreshold ==
    [][ scanCalls' # scanCalls =>
          LET keys == { <<scanInput'[i].port, scanInput'[i].protocol>> :
                            i \in 1..Len(scanInput') }
              cands == { k \in keys :
                            \/ k \notin DOMAIN connectionHistory
                            \/ scanNow' - connectionHistory[k] > 60000 }
          IN /\ Cardinality(cands) >= 10 =>
                   /\ scanAlert'.type = "port_scan"
                   /\ scanAlert'.severity = "critical"
                   /\ Len(scanAlert'.ports) = Cardinality(cands)
                   /\ SeqToSet(scanAlert'.ports) = { k[1] : k \in cands }
             /\ Cardinality(cands) <= 9 => scanAlert'.type = "null"
      ]_vars

C10_Witness ==
    /\ scanAlert.type = "port_scan"
    /\ Len(scanAlert.ports) = 10
    /\ Len(scanInput) = 11
    /\ scanCalls > 1

\* C11: every per-port alert of an analysis (any alert other than port_scan)
\* belongs to a record of the input whose port is not in whitelist.ports and
\* whose process is not in whitelist.processes: a whitelisted record yields none.
C11_WhitelistSilences ==
    ~anResult.rejected =>
        \A i \in DOMAIN anResult.alerts :
            anResult.alerts[i].type # "port_scan" =>
                \E j \in DOMAIN anInput :
                    /\ anInput[j].port \notin SeqToSet(anResult.whitelist.ports)
                    /\ anInput[j].process \notin SeqToSet(anResult.whitelist.processes)
                    /\ anResult.alerts[i].port = anInput[j].port
                    /\ \/ anResult.alerts[i].process = anInput[j].process
                       \/ /\ anInput[j].process = <<>>
                          /\ anResult.alerts[i].process = Chars.unknown

\* an analysis that skipped a record for its process only and alerted on another
C11_Witness ==
    /\ anCalls > 0
    /\ ~anResult.rejected
    /\ \E j \in DOMAIN anInput :
           /\ anInput[j].process \in SeqToSet(anResult.whitelist.processes)
           /\ anInput[j].port \notin SeqToSet(anResult.whitelist.ports)
    /\ \E i \in DOMAIN anResult.alerts : anResult.alerts[i].type = "privilege_violation"
       \/ anResult.alerts[i].type = "suspicious_process"

\* C12: the severity and type of a generateSecurityAlert call are those of the
\* six rules taken in order, first match wins: dangerous port; port without a
\* knowledge-table entry; entry of risk high; development port bound to a
\* non-loopback address; process present and matching none of the entry's
\* processes; otherwise low/info.
C12_RuleOrder ==
    gsaCalls > 0 =>
        LET port == gsaLast.port
            loopback == gsaLast.address \in {"127.0.0.1", "localhost", "127.0.0.53"}
            matching == \E k \in DOMAIN commonPorts[port].commonProcesses :
                            includes(toLowerCase(gsaLast.process),
                                     toLowerCase(commonPorts[port].commonProcesses[k]))
            expected ==
                IF port \in dangerousPorts THEN <<"critical", "dangerous_port">>
                ELSE IF port \notin DOMAIN commonPorts THEN <<"medium", "unknown_port">>
                ELSE IF commonPorts[port].risk = "high" THEN <<"high", "high_risk_service">>
                ELSE IF port \in developmentPorts /\ ~loopback
                     THEN <<"high", "dev_service_exposed">>
                ELSE IF gsaLast.process # <<>> /\ ~matching
                     THEN <<"medium", "process_mismatch">>
                ELSE <<"low", "info">>
        IN <<gsaLast.alert.severity, gsaLast.alert.type>> = expected

\* C13: two calls of generateSecurityAlert with the same port, address and
\* process return the same severity and type, whatever their protocols and
\* call times.
C13_VerdictOfPortAddressProcess ==
    ( /\ gsaCalls >= 2
      /\ gsaPrev.port = gsaLast.port
      /\ gsaPrev.address = gsaLast.address
      /\ gsaPrev.process = gsaLast.process )
    => /\ gsaPrev.alert.severity = gsaLast.alert.severity
       /\ gsaPrev.alert.type = gsaLast.alert.type

\* two such calls that differ in protocol, time and message
C13_Witness ==
    /\ gsaCalls >= 2
    /\ gsaPrev.port = gsaLast.port
    /\ gsaPrev.address = gsaLast.address
    /\ gsaPrev.process = gsaLast.process
    /\ gsaPrev.protocol # gsaLast.protocol
    /\ gsaPrev.at # gsaLast.at
    /\ gsaPrev.alert.message # gsaLast.alert.message

\* C14: analyzePorts never rejects, and every record of its input that is not
\* whitelisted has an alert in the result.
C14_NeverRejects ==
    /\ ~anResult.rejected
    /\ \A j \in DOMAIN anInput :
           ( /\ anInput[j].port \notin SeqToSet(anResult.whitelist.ports)
             /\ anInput[j].process \notin SeqToSet(anResult.whitelist.processes) )
           => \E i \in DOMAIN anResult.alerts :
                  /\ anResult.alerts[i].type # "port_scan"
                  /\ anResult.alerts[i].port = anInput[j].port

\* C15: a parse result holds at most one record per (port, protocol), and each
\* record is the one built from the first line of the text that has its pair.
C15_FirstLineWins ==
    parsePc # "input" =>
        /\ \A i, j \in DOMAIN parseFirst :
               ( /\ parseFirst[i].port = parseFirst[j].port
                 /\ parseFirst[i].protocol = parseFirst[j].protocol ) => i = j
        /\ \A i \in DOMAIN parseFirst :
               \E k \in DOMAIN parseInput :
                   /\ ~Skipped(parseInput[k])
                   /\ parseFirst[i] = PortRecord(parseInput[k], parseFirst[i].timestamp)
                   /\ \A j \in 1..(k - 1) :
                          Skipped(parseInput[j])
                          \/ ExtractPort(parseInput[j]) # parseFirst[i].port
                          \/ ExtractProtocol(parseInput[j]) # parseFirst[i].protocol

\* a parsed text in which two lines of one pair would give different records
C15_Witness ==
    /\ parsePc # "input"
    /\ Len(parseFirst) >= 2
    /\ \E j, k \in DOMAIN parseInput :
           /\ j < k
           /\ ~Skipped(parseInput[j]) /\ ~Skipped(parseInput[k])
           /\ ExtractPort(parseInput[j]) = ExtractPort(parseInput[k])
           /\ ExtractProtocol(parseInput[j]) = ExtractProtocol(parseInput[k])
           /\ PortRecord(parseInput[j], 0) # PortRecord(parseInput[k], 0)

\* C16: every record of a parse result has protocol tcp or udp and a port
\* between 1 and 65535.
C16_PortRange ==
    \A i \in DOMAIN parseFirst :
        /\ parseFirst[i].protocol \in {"tcp", "udp"}
        /\ 1 <= parseFirst[i].port /\ parseFirst[i].port <= 65535

C18_LineToRecord ==
    ( /\ parsePc # "input"
      /\ Len(parseInput) = 1
      /\ parseInput[1][1].kind = "word"
      /\ parseInput[1][1].chars \in {Chars.tcp, Chars.tcp6, Chars.udp} )
    => LET line == parseInput[1]
           local == line[FirstMatch({ i \in DOMAIN line : line[i].kind = "sock" })]
           column == line[Len(line)]
       IN ( /\ local.port >= 1 /\ local.port <= 65535
            /\ column.kind \in {"users", "pidprog"}
            /\ column.pid # NoNum )
          => /\ Len(parseFirst) = 1
             /\ parseFirst[1].port = local.port
             /\ parseFirst[1].protocol = (IF line[1].chars = Chars.udp THEN "udp" ELSE "tcp")
             /\ parseFirst[1].address = (IF local.host \in {"*", "::", "[::]"}
                                         THEN "0.0.0.0" ELSE local.host)
             /\ parseFirst[1].process = column.chars
             /\ parseFirst[1].pid = column.pid

\* C19 as stated: when cleanup has returned, each of the four tables has lost
\* exactly its rows with a timestamp strictly older than the horizon.
C19_CleanupByHorizon ==
    CleanupDone =>
        \A i \in DOMAIN TableNames :
            tables[TableNames[i]] =
                { row \in rowsBefore[TableNames[i]] : ~(row.timestamp < Horizon(dbNow)) }

\* C19 amended: when cleanup has returned, a table whose DELETE succeeded has
\* lost exactly its rows strictly older than the horizon, in security_alerts
\* only those of them that are resolved; a table whose DELETE failed is
\* unchanged.
C19_CleanupByHorizonResolved ==
    CleanupDone =>
        \A i \in DOMAIN TableNames :
            tables[TableNames[i]] =
                IF queryOk[i]
                THEN { row \in rowsBefore[TableNames[i]] :
                          ~( /\ row.timestamp < Horizon(dbNow)
                             /\ TableNames[i] = "security_alerts" => row.resolved ) }
                ELSE rowsBefore[TableNames[i]]

\* a finished cleanup that met a row exactly on the horizon, removed a
\* resolved alert and kept an unresolved one of the same age
C19_Witness ==
    /\ CleanupDone
    /\ \A i \in DOMAIN TableNames : queryOk[i]
    /\ \E row \in rowsBefore["security_alerts"] :
           row.timestamp < Horizon(dbNow) /\ row.resolved /\ row \notin tables["security_alerts"]
    /\ \E row \in tables["security_alerts"] : row.timestamp < Horizon(dbNow)
    /\ \E i \in DOMAIN TableNames :
           \E row \in tables[TableNames[i]] : row.timestamp = Horizon(dbNow)

C21_NoDuplicateEntries ==
    LET stored == loadWhitelist(whitelistFile)
        before == loadWhitelist(wlPrev)
    IN /\ \A i, j \in DOMAIN stored.ports : stored.ports[i] = stored.ports[j] => i = j
       /\ \A i, j \in DOMAIN stored.processes :
              stored.processes[i] = stored.processes[j] => i = j
       /\ wlLast.op = "add" =>
              /\ (\E i \in DOMAIN before.ports : before.ports[i] = wlLast.port)
                     => stored.ports = before.ports
              /\ (\E i \in DOMAIN before.processes : before.processes[i] = wlLast.process)
                     => stored.processes = before.processes

\* an add of a listed port with a listed process, saved, next to another port
C21_Witness ==
    /\ wlLast.op = "add" /\ ~wlLast.rejected
    /\ \E i \in DOMAIN loadWhitelist(wlPrev).ports :
           loadWhitelist(wlPrev).ports[i] = wlLast.port
    /\ \E i \in DOMAIN loadWhitelist(wlPrev).processes :
           loadWhitelist(wlPrev).processes[i] = wlLast.process
    /\ Len(loadWhitelist(whitelistFile).ports) >= 2

\* C22: removeFromWhitelist(port) takes that port, and nothing else, out of
\* the stored whitelist: the other ports keep their order, the process list is
\* untouched, and removing a port that is not listed changes nothing (nor
\* does a removal whose write fails).
C22_RemoveOnlyThePort ==
    LET stored == loadWhitelist(whitelistFile)
        before == loadWhitelist(wlPrev)
        others == { i \in DOMAIN before.ports : before.ports[i] # wlLast.port }
    IN wlLast.op = "remove" =>
          /\ stored.processes = before.processes
          /\ ~wlLast.rejected =>
                /\ Len(stored.ports) = Cardinality(others)
                /\ \A i \in others :
                       stored.ports[Cardinality({ j \in others : j <= i })] = before.ports[i]
          /\ (others = DOMAIN before.ports \/ wlLast.rejected) => stored = before

\* a listed port removed while another port and a process name stay
C22_Witness ==
    /\ wlLast.op = "remove" /\ ~wlLast.rejected
    /\ \E i \in DOMAIN loadWhitelist(wlPrev).ports :
           loadWhitelist(wlPrev).ports[i] = wlLast.port
    /\ Len(loadWhitelist(whitelistFile).ports) >= 1
    /\ Len(loadWhitelist(whitelistFile).processes) >= 1

\* C23: in the topology of a response both ends of every edge are ids of
\* nodes of the nodes list.
C23_EdgesJoinKnownNodes ==
    \A e \in DOMAIN topology.edges :
        /\ \E n \in DOMAIN topology.nodes : topology.nodes[n].id = topology.edges[e].from
        /\ \E n \in DOMAIN topology.nodes : topology.nodes[n].id = topology.edges[e].to

\* C24: a request that reaches the /api gate with a path not under /auth/ is
\* passed on (next) exactly when its session_token cookie names a session
\* that was created, not destroyed and not past its expiry; every other such
\* request is answered 401. Requests under /auth/ are passed on unchecked.
C24_GateNeedsLiveSession ==
    [][ (authLast'.tick # authLast.tick /\ authLast'.op = "request") =>
          LET token == authLast'.token
              live == /\ token \in SessionTokens
                      /\ issued[token] # NoNum
                      /\ token \notin destroyed
                      /\ authNow <= issued[token]
          IN IF Len(authLast'.path) >= 2 /\ authLast'.path[1] = "auth"
             THEN authLast'.answer = "next"
             ELSE /\ authLast'.answer \in {"next", "401"}
                  /\ authLast'.answer = "next" <=> live
      ]_vars

\* a request for /api/ports with the cookie of an expired session got 401
C24_Witness ==
    /\ authLast.op = "request" /\ authLast.path = <<"ports">>
    /\ authLast.answer = "401"
    /\ authLast.token \in SessionTokens
    /\ issued[authLast.token] # NoNum
    /\ authLast.token \notin destroyed

\* C25: validateSession returns a session only for a token that was created,
\* has not been destroyed and is not past the expiresAt it was created with
\* (24 h after creation); and when it is called for a token past its
\* expiresAt, the store holds no entry for that token afterwards.
C25_ValidOnlyUntilExpiryOrDestroy ==
    [][ (authLast'.tick # authLast.tick /\ authLast'.op = "validate") =>
          LET token == authLast'.token
          IN /\ authLast'.answer = "session" =>
                   /\ token \in SessionTokens
                   /\ issued[token] # NoNum
                   /\ issued[token] <= authNow + 86400000
                   /\ token \notin destroyed
                   /\ authNow <= issued[token]
             /\ (token \in SessionTokens /\ issued[token] # NoNum /\ authNow > issued[token])
                   => /\ authLast'.answer = Null
                      /\ ~sessions'[token].live
      ]_vars

\* validateSession met an entry past its expiry and deleted it
C25_Witness ==
    /\ authLast.op = "validate" /\ authLast.answer = Null
    /\ authLast.token \in SessionTokens
    /\ issued[authLast.token] # NoNum
    /\ authLast.token \notin destroyed
    /\ authNow > issued[authLast.token]
    /\ \E t \in SessionTokens : sessions[t].live

\* C26: in every getActivePorts call netstat is run only after the ss of the
\* same call failed, never after an ss that succeeded, and a call in which a
\* command succeeded returns the parse of the text that command printed.
C26_NetstatOnlyAfterSsFailed ==
    [][ \A k \in 1..MaxCalls :
          calls'[k] # calls[k] =>
            LET call == calls'[k]
                ran(i) == [command |-> call.execs[i], out |-> call.outs[i]]
            IN /\ call.execs \in { <<>>, <<"ss">>, <<"ss", "netstat">> }
               /\ Len(call.outs) <= Len(call.execs)
               /\ Len(call.execs) = 2 => (Len(call.outs) >= 1 /\ ~ran(1).out.ok)
               /\ (Len(call.outs) >= 1 /\ ran(1).out.ok) => call.execs = <<"ss">>
               /\ \A i \in DOMAIN call.outs :
                     ran(i).out.ok =>
                        /\ i = Len(call.execs) /\ call.pc = "done" /\ ~call.failed
                        /\ call.result = parsePortOutput(ran(i).out.stdout, pmNow)
      ]_vars

\* one call answered from ss, another from netstat after its ss failed
C26_Witness ==
    \E k, j \in 1..MaxCalls :
        /\ calls[k].pc = "done" /\ calls[k].execs = <<"ss">>
        /\ Len(calls[k].result) = 2
        /\ calls[j].pc = "done" /\ calls[j].execs = <<"ss", "netstat">>
        /\ ~calls[j].failed /\ Len(calls[j].result) = 2

\* C27: in a detectPortScanning call an observed key is a candidate exactly
\* when no earlier call observed it or the last call that observed it was more
\* than 60 s before: a key observed again within 60 s is no candidate, however
\* long the chain of such calls.
C27_CandidateOncePer60s ==
    [][ scanCalls' # scanCalls =>
          LET keys == { <<scanInput'[i].port, scanInput'[i].protocol>> :
                            i \in DOMAIN scanInput' }
              new == { k \in keys : \/ k \notin DOMAIN lastObserved
                                    \/ scanNow' - lastObserved[k] > 60000 }
          IN \A k \in keys :
                Cardinality({ i \in DOMAIN scanRecent' : scanRecent'[i] = k[1] })
                   = Cardinality({ n \in new : n[1] = k[1] })
      ]_vars

\* a call 60 s after the one before observed the same keys and found no
\* candidate among them
C27_Witness ==
    /\ scanCalls >= 2
    /\ Len(scanInput) >= 2
    /\ scanRecent = <<>>
    /\ \E k \in DOMAIN connectionHistory : connectionHistory[k] = scanNow

\* C28: after every detectPortScanning call no entry of connectionHistory is
\* more than 300 s older than the time of the call, and the map holds no more
\* keys than were observed during the 300 s before the call's end.
C28_HistoryBounded ==
    [][ scanCalls' # scanCalls =>
          /\ \A k \in DOMAIN connectionHistory' :
                 scanNow' - connectionHistory'[k] <= 300000
          /\ Cardinality(DOMAIN connectionHistory')
                <= Cardinality({ k \in DOMAIN lastObserved' :
                                    scanNow' - lastObserved'[k] <= 300000 })
      ]_vars

\* a call dropped the entries of keys last observed more than 300 s before
C28_Witness ==
    /\ scanCalls >= 2
    /\ DOMAIN connectionHistory # {}
    /\ \E k \in DOMAIN lastObserved :
          /\ k \notin DOMAIN connectionHistory
          /\ scanNow - lastObserved[k] > 300000

\* C29: the answer of GET /api/ports has one record per record read, in the same
\* order; each carries every field of its original unchanged, and as container
\* and containerId the name and id of the first binding with the record's port,
\* or null and null when no binding has that port.
C29_FirstBindingAttached ==
    /\ Len(portsReply.data) = Len(portsReply.ports)
    /\ \A i \in DOMAIN portsReply.ports :
          LET rec == portsReply.ports[i]
              out == portsReply.data[i]
              idx == { j \in DOMAIN portsReply.bindings :
                         portsReply.bindings[j].port = rec.port }
          IN /\ DOMAIN out = DOMAIN rec \cup {"container", "containerId"}
             /\ \A f \in DOMAIN rec : out[f] = rec[f]
             /\ idx = {} => out.container = Null /\ out.containerId = Null
             /\ \A j \in idx :
                   (\A k \in idx : j <= k) =>
                       /\ out.container = portsReply.bindings[j].name
                       /\ out.containerId = portsReply.bindings[j].id

\* two bindings publish port 80 and the list read has a record of port 80 after
\* one without binding
C29_Witness ==
    /\ Len(portsReply.data) = 2
    /\ portsReply.bindings = <<Binding(80, "proxy", "c2"), Binding(80, "web", "c1")>>
    /\ portsReply.data[1].container = Null
    /\ portsReply.data[2].container = "proxy"
    /\ portsReply.data[2].process = "nginx"

\* C30: for every record of the input whose port and process are not in the
\* whitelist, the result of analyzePorts holds its classification alert, one
\* suspicious_process alert of the pattern's severity for each pattern of
\* suspiciousPatterns matching the process name, and one high
\* privilege_violation alert exactly when the port is below 1024, the
\* process is not root and the pid is known (each as often as the input
\* repeats the record's port and process).
C30_AlertsPerRecord ==
    anCalls > 0 =>
      \A j \in DOMAIN anInput :
        LET rec == anInput[j]
            wl == anResult.whitelist
            listed == \/ wl.hasPorts /\ rec.port \in SeqToSet(wl.ports)
                      \/ wl.hasProcesses /\ rec.process \in SeqToSet(wl.processes)
            n == Cardinality({ k \in DOMAIN anInput :
                                 /\ anInput[k].port = rec.port
                                 /\ anInput[k].process = rec.process })
            of(type) == { i \in DOMAIN anResult.alerts :
                            /\ anResult.alerts[i].type = type
                            /\ anResult.alerts[i].port = rec.port
                            /\ anResult.alerts[i].process = rec.process }
            classified == { i \in DOMAIN anResult.alerts :
                              /\ anResult.alerts[i].type \notin
                                    {"suspicious_process", "privilege_violation", "port_scan"}
                              /\ anResult.alerts[i].port = rec.port
                              /\ anResult.alerts[i].process =
                                    IF rec.process = <<>> THEN Chars.unknown ELSE rec.process }
            matched == { k \in DOMAIN suspiciousPatterns :
                           /\ rec.process # <<>>
                           /\ \E w \in suspiciousPatterns[k].pattern :
                                  includes(toLowerCase(rec.process), w) }
            privileged == rec.port < 1024 /\ rec.process # Chars.root /\ rec.pid # 0
        IN ~listed =>
             /\ Cardinality(classified) = n
             /\ Cardinality(of("suspicious_process")) = n * Cardinality(matched)
             /\ \A k \in matched :
                   Cardinality({ i \in of("suspicious_process") :
                       anResult.alerts[i].severity = suspiciousPatterns[k].severity }) = n
             /\ Cardinality(of("privilege_violation")) = (IF privileged THEN n ELSE 0)
             /\ \A i \in of("privilege_violation") : anResult.alerts[i].severity = "high"

C33_BurstReportedByNextTick ==
    [][ ( /\ anCalls' # anCalls
          /\ tickObserved'.caller = "tick" )
        => LET keys == { <<anInput'[i].port, anInput'[i].protocol>> : i \in DOMAIN anInput' }
               new == { k \in keys : \/ k \notin DOMAIN tickObserved.seen
                                     \/ scanNow' - tickObserved.seen[k] > 60000 }
           IN Cardinality(new) >= 10 =>
                 \E i \in DOMAIN anResult'.alerts : anResult'.alerts[i].type = "port_scan"
      ]_vars

\* C34: a WebSocket subscriber is handed a message (initial-data or
\* port-update) only if its connection request carried a valid session.
C34_OnlyAuthenticatedReceive ==
    \A c \in Clients : inbox[c] # <<>> => c \in WithSession

\* C35: a session that a failed send removed from the registry is closed as
\* well: it is not an OPEN socket outside the registry.
C35_DroppedSessionClosed ==
    \A c \in sendFailed : c \notin Registry => readyState[c] # "OPEN"

\* C36: when no whitelist request is in flight, the stored whitelist reflects
\* every request that completed: a port added and never removed is listed
\* (with its process name, if one was given), a port removed and never added
\* is not.
C36_NoLostWhitelistUpdate ==
    (\A k \in DOMAIN wlOps : wlOps[k].pc # "loaded") =>
        LET stored == loadWhitelist(whitelistFile)
            saved(op) == { k \in DOMAIN wlOps : wlOps[k].pc = "saved" /\ wlOps[k].op = op }
        IN /\ \A k \in saved("add") :
                  (\A j \in saved("remove") : wlOps[j].port # wlOps[k].port) =>
                      /\ wlOps[k].port \in SeqToSet(stored.ports)
                      /\ wlOps[k].process # <<>> =>
                             wlOps[k].process \in SeqToSet(stored.processes)
           /\ \A k \in saved("remove") :
                  (\A j \in saved("add") : wlOps[j].port # wlOps[k].port) =>
                      wlOps[k].port \notin SeqToSet(stored.ports)

\* C37: when at least 10 keys of the list given to analyzePorts are newly seen,
\* one of them with a port of the whitelist, the result holds a port_scan alert
\* listing the port of every newly seen key, the whitelisted one included; and
\* no alert other than port_scan names a port of the whitelist.
C37_ScanIgnoresWhitelist ==
    [][ anCalls' # anCalls =>
          LET keys == { <<anInput'[i].port, anInput'[i].protocol>> : i \in DOMAIN anInput' }
              new == { k \in keys : \/ k \notin DOMAIN lastObserved
                                    \/ scanNow' - lastObserved[k] > 60000 }
              wl == anResult'.whitelist
              alerts == anResult'.alerts
          IN /\ ( /\ Cardinality(new) >= 10
                  /\ wl.hasPorts
                  /\ \E k \in new : k[1] \in SeqToSet(wl.ports) ) =>
                   \E i \in DOMAIN alerts :
                       /\ alerts[i].type = "port_scan"
                       /\ \A k \in new : k[1] \in SeqToSet(alerts[i].ports)
             /\ \A i \in DOMAIN alerts :
                   (alerts[i].type # "port_scan" /\ wl.hasPorts) =>
                       alerts[i].port \notin SeqToSet(wl.ports)
      ]_vars

\* C38: the first analyzePorts call returns a port_scan alert exactly when its
\* list holds at least 10 distinct (port, protocol) keys.
C38_FirstCallCountsEveryKey ==
    [][ (anCalls = 0 /\ anCalls' = 1) =>
          LET keys == { <<anInput'[i].port, anInput'[i].protocol>> : i \in DOMAIN anInput' }
          IN (\E i \in DOMAIN anResult'.alerts : anResult'.alerts[i].type = "port_scan")
                <=> Cardinality(keys) >= 10
      ]_vars
\* C39 (as stated): the step in which a call fails on both commands changes
\* neither cachedPorts nor lastUpdate; the call made next after a call that
\* failed invokes the commands; a successful acquisition stores the parsed
\* output in cachedPorts and sets lastUpdate to the current time.
C39_NextCallInvokesCommands ==
    [][\A k \in 1..MaxCalls :
          /\ (~calls[k].failed /\ calls'[k].failed) =>
                (cachedPorts' = cachedPorts /\ lastUpdate' = lastUpdate)
          /\ ( /\ calls[k].pc = "idle" /\ calls'[k].pc # "idle"
               /\ k > 1 /\ calls[k - 1].failed ) =>
                calls'[k].execs # <<>>
          /\ (calls[k].pc \in {"ss", "netstat"} /\ calls'[k].pc = "done"
                 /\ ~calls'[k].failed) =>
                /\ cachedPorts' = parsePortOutput(calls'[k].outs[Len(calls'[k].outs)].stdout,
                                                  pmNow)
                /\ lastUpdate' = pmNow
      ]_vars

\* C39 (amended): the step in which a call fails on both commands changes
\* neither cachedPorts nor lastUpdate; the call made next after a call that
\* failed invokes the commands unless the cache is non-empty and younger than
\* cacheTimeout, which an overlapping call's acquisition can have made it; a
\* successful acquisition stores the parsed output in cachedPorts and sets
\* lastUpdate to the current time.
C39_FailureNotCached ==
    [][\A k \in 1..MaxCalls :
          /\ (~calls[k].failed /\ calls'[k].failed) =>
                (cachedPorts' = cachedPorts /\ lastUpdate' = lastUpdate)
          /\ ( /\ calls[k].pc = "idle" /\ calls'[k].pc # "idle"
               /\ k > 1 /\ calls[k - 1].failed ) =>
                ( calls'[k].execs # <<>>
                    <=> ~(pmNow - lastUpdate < cacheTimeout /\ Len(cachedPorts) > 0) )
          /\ (calls[k].pc \in {"ss", "netstat"} /\ calls'[k].pc = "done"
                 /\ ~calls'[k].failed) =>
                /\ cachedPorts' = parsePortOutput(calls'[k].outs[Len(calls'[k].outs)].stdout,
                                                  pmNow)
                /\ lastUpdate' = pmNow
      ]_vars

\* a call failed, the call after it invoked the commands and acquired a
\* non-empty list, which is the cache now
C39_Witness ==
    \E k \in 2..MaxCalls :
        /\ calls[k - 1].failed
        /\ calls[k].pc = "done" /\ ~calls[k].failed
        /\ calls[k].execs # <<>>
        /\ Len(calls[k].result) > 0
        /\ cachedPorts = calls[k].result
        /\ lastUpdate > 0

\* C40: once cleanup() has cleared the two intervals and closed the sessions,
\* no tick and no heartbeat starts and no session is sent a port-update, be it
\* by a tick that was in flight or to a session that connected afterwards; and
\* at most one invocation of cleanup() ever runs.
C40_QuietAfterShutdown ==
    [][ /\ ~intervalsActive =>
              /\ nRuns' = nRuns
              /\ hbTerminated' = hbTerminated
              /\ \A c \in Clients : pingOut'[c] => pingOut[c]
              /\ \A c \in Clients :
                    \/ inbox'[c] = inbox[c]
                    \/ inbox'[c][Len(inbox'[c])].type # "port-update"
        /\ Cardinality({ h \in Handlers : shutPc'[h] # "idle" }) <= 1
      ]_vars

====
